---- MODULE Spec2Model ----
(***************************************************************************)
(* The cart store of the TechOps storefront: the script.js cart (a global  *)
(* array mirrored to localStorage under the key 'cart'), the plain-DOM     *)
(* checkout table, and the cart handlers of the Vue checkout application;  *)
(* the checkout submit of both implementations, the contact and checkout   *)
(* forms, and the expiry validators.                                       *)
(* Prices are integers (cents); one page at a time in the tab followed; a  *)
(* second tab is followed through its cart array only.                     *)
(***************************************************************************)
EXTENDS Integers, Sequences, FiniteSets, TLC

VARIABLES
  page,            \* page loaded in the tab: "shop", "checkout" (plain DOM), "vue",
                   \* "contact" (plain DOM), "vueContact"
  cart,            \* script.js: let cart = []
  storage,         \* localStorage entry under the key 'cart'
  failures,        \* number of setItem calls that have thrown so far
  pending,         \* addToCart calls whose catalog fetch is in flight
  disabled,        \* product names whose add-to-cart element has disabled = true
  timers,          \* product names with a pending 1600 ms re-enable timer
  rows,            \* rows of the checkout table as last rendered
  shippingMethod,  \* value of the #shipping-method select (plain checkout)
  cartItems,       \* Vue CheckoutApp: cartItems.value
  cartTotal,       \* Vue CheckoutApp: cartTotal.value
  last,            \* what the last handler did and showed
  shape,           \* kinds of the values held by cart and cartItems.value, and
                   \* whether setupCheckout ran to its end on this page
  isProcessing,    \* Vue CheckoutForm: isProcessing.value
  orderPlaced,     \* Vue CheckoutForm: orderPlaced.value
  orderNumber,     \* Vue CheckoutForm: orderNumber.value, 0 for ''
  orderHistory,    \* Vue CheckoutApp: orderHistory.value
  historyStorage,  \* localStorage entry under the key 'orderHistory'
  form,            \* the form on the page: field values, errors and messages shown
  arg,             \* argument of the function under study
  result,          \* what the function under study returned for arg
  grid,            \* contents of #products on products.html
  searchInput,     \* value of #searchInputProducts
  fetches,         \* catalog fetches of initializePage that are in flight
  peer,            \* script.js: the cart array of a second tab of the same origin
  submitted        \* history: the items and subtotal the Vue checkout showed when
                   \* the handleSubmit now waiting passed validateForm

\* the state of the order flow
orderVars == <<isProcessing, orderPlaced, orderNumber, orderHistory, historyStorage>>

\* the state of the forms and of the functions under study
formVars == <<form, arg, result>>

\* the product grid of products.html
gridVars == <<grid, searchInput, fetches>>

vars == <<page, cart, storage, failures, pending, disabled, timers, rows,
          shippingMethod, cartItems, cartTotal, last, shape, orderVars, formVars,
          gridVars, peer, submitted>>

-----------------------------------------------------------------------------
(* Bounds of the model *)

MaxQty == 2
MaxPending == 1
MaxWriteFailures == 1
MaxOrders == 2
MaxFields == 3
MaxInFlight == 2

-----------------------------------------------------------------------------
(* The catalog (products-data.json) and the price attribute of its cards *)

Catalog ==
  << [name |-> "B", price |-> 1500,  category |-> "Accessories", discountPercent |-> 0],
     [name |-> "A", price |-> 10000, category |-> "Laptops",     discountPercent |-> 0],
     [name |-> "C", price |-> 5000,  category |-> "Accessories", discountPercent |-> 100] >>

CatalogNames == {Catalog[i].name : i \in DOMAIN Catalog}

\* names the handlers are called with: a product without a discount of its
\* own, the product with its own discount, and a name in no catalog entry
Names == {"A", "C", "ghost"}

\* no data-price attribute: getAttribute is not called, discountedPrice = null
NullPrice == -1

\* the totals area shows no total
NoTotal == -1

Pages == {"shop", "checkout", "vue"}
ModalPages == {"shop", "checkout"}
ShippingMethods == {"standard", "express"}
ExpressCost == 1500

\* Number.prototype.toFixed(2) of price * (1 - pct/100), in cents
toFixed2Discount(price, pct) == (price * (100 - pct) + 50) \div 100

\* renderProductCard: the data-price attribute of the card of prod at index
cardDataPrice(prod, index) ==
  LET discountPercent == IF prod.discountPercent # 0 THEN prod.discountPercent
                         ELSE IF index = 0 THEN 20 ELSE 0
      hasDiscount == discountPercent > 0
  IN  IF hasDiscount THEN toFixed2Discount(prod.price, discountPercent) ELSE NullPrice

\* the category buttons of the products page
Listings == {"All", "Laptops", "Accessories"}

\* filterProducts(category): the products whose cards the listing shows
filterProducts(category) ==
  SelectSeq(Catalog, LAMBDA p : category = "All" \/ p.category = category)

\* the listing of category has a card for name
hasCard(category, name) ==
  \E i \in DOMAIN filterProducts(category) : filterProducts(category)[i].name = name

\* the data-price attribute of the button of name in the listing of category
listingDataPrice(category, name) ==
  LET filtered == filterProducts(category)
  IN  IF hasCard(category, name)
      THEN LET i == CHOOSE j \in DOMAIN filtered : filtered[j].name = name
           IN  cardDataPrice(filtered[i], i - 1)
      ELSE NullPrice

\* a lookup that finds an entry under every name
findAnyProduct(name) ==
  IF name \in CatalogNames
  THEN [found |-> TRUE,
        product |-> Catalog[CHOOSE j \in DOMAIN Catalog : Catalog[j].name = name]]
  ELSE [found |-> TRUE, product |-> Catalog[1]]

\* products.find(p => p.name === productName)
findProduct(name) ==
  IF name \in CatalogNames
  THEN [found |-> TRUE,
        product |-> Catalog[CHOOSE j \in DOMAIN Catalog : Catalog[j].name = name]]
  ELSE [found |-> FALSE, product |-> Catalog[1]]

-----------------------------------------------------------------------------
(* JSON text of a cart *)

JsonNumber(n)  == [t |-> "number",  n |-> n, s |-> "", b |-> FALSE]
JsonString(s)  == [t |-> "string",  n |-> 0, s |-> s,  b |-> FALSE]
JsonBoolean(b) == [t |-> "boolean", n |-> 0, s |-> "", b |-> b]
JsonUndefined  == [t |-> "undefined", n |-> -1, s |-> "", b |-> FALSE]

\* a serialization that leaves out the discount fields of a line
stringifyItemWithoutDiscount(item) ==
  << [k |-> "name",          v |-> JsonString(item.name)],
     [k |-> "price",         v |-> JsonNumber(item.price)],
     [k |-> "quantity",      v |-> JsonNumber(item.quantity)] >>

\* JSON.stringify of one line: the own properties, in insertion order
stringifyItem(item) ==
  << [k |-> "name",          v |-> JsonString(item.name)],
     [k |-> "price",         v |-> JsonNumber(item.price)],
     [k |-> "quantity",      v |-> JsonNumber(item.quantity)],
     [k |-> "originalPrice", v |-> JsonNumber(item.originalPrice)],
     [k |-> "isDiscounted",  v |-> JsonBoolean(item.isDiscounted)] >>

\* JSON.stringify(cart)
stringify(c) == [i \in 1..Len(c) |-> stringifyItem(c[i])]

\* the value of member k of a parsed object, undefined when it has none
member(obj, k) ==
  IF \E i \in DOMAIN obj : obj[i].k = k
  THEN obj[CHOOSE i \in DOMAIN obj : obj[i].k = k].v
  ELSE JsonUndefined

parseItem(obj) ==
  [name          |-> member(obj, "name").s,
   price         |-> member(obj, "price").n,
   quantity      |-> member(obj, "quantity").n,
   originalPrice |-> member(obj, "originalPrice").n,
   isDiscounted  |-> member(obj, "isDiscounted").b]

\* JSON.parse of an array text
parse(text) == [i \in 1..Len(text) |-> parseItem(text[i])]

\* what the text of a stored entry is: the JSON text of an array of lines,
\* a text JSON.parse rejects, or the JSON text of null, of an object, of a number
JsonKinds == {"array", "invalid", "null", "object", "number"}

NoEntry == [present |-> FALSE, json |-> "array", text |-> <<>>]

\* localStorage.setItem('cart', text), text the JSON text of an array
setItem(text) == [present |-> TRUE, json |-> "array", text |-> text]

\* loadCartFromStorage: JSON.parse(localStorage.getItem('cart') || '[]'); the
\* lines of the array it leaves in cart, none when cart is not an array
loadCartFromStorage(st) ==
  IF st.present /\ st.json = "array" THEN parse(st.text) ELSE <<>>

\* loadCartFromStorage: the kind of value it leaves in cart; a text that does
\* not parse throws into the catch (cart = []), any other JSON value is kept
loadCartFromStorageKind(st) ==
  IF ~st.present \/ st.json = "invalid" THEN "array" ELSE st.json

\* outcomes of one setItem call: it can throw (quota), a bounded number of times
WriteOutcomes == IF failures < MaxWriteFailures THEN {TRUE, FALSE} ELSE {TRUE}

-----------------------------------------------------------------------------
(* Totals *)

RECURSIVE showCartTotal(_)
\* showCart: total += item.price * item.quantity over cart.map
showCartTotal(c) ==
  IF c = <<>> THEN 0
  ELSE showCartTotal(SubSeq(c, 1, Len(c) - 1)) + c[Len(c)].price * c[Len(c)].quantity

\* showCart: the total in the modal; the empty cart shows a message instead
showCart(c) == IF Len(c) = 0 THEN NoTotal ELSE showCartTotal(c)

RECURSIVE checkoutSubtotal(_)
\* updateCheckoutTotal: subtotal += item.price * item.quantity
checkoutSubtotal(c) ==
  IF c = <<>> THEN 0
  ELSE checkoutSubtotal(SubSeq(c, 1, Len(c) - 1)) + c[Len(c)].price * c[Len(c)].quantity

\* updateCheckoutTotal: total = subtotal + shippingCost
checkoutTotal(c, method) ==
  checkoutSubtotal(c) + (IF method = "express" THEN ExpressCost ELSE 0)

RECURSIVE calculateCartTotal(_)
\* CheckoutApp.calculateCartTotal: reduce((total, item) => total + price * quantity, 0)
calculateCartTotal(items) ==
  IF items = <<>> THEN 0
  ELSE calculateCartTotal(SubSeq(items, 1, Len(items) - 1))
         + items[Len(items)].price * items[Len(items)].quantity

-----------------------------------------------------------------------------
(* What the last handler that touched the cart, the storage or a totals    *)
(* display reports: its name, the outcome of its storage write, the alert  *)
(* or error it raised and the totals it displayed                          *)

Report(op, write, alert, total, subtotal, grand) ==
  [op |-> op, write |-> write, alert |-> alert,
   total |-> total, subtotal |-> subtotal, grand |-> grand]

WriteResult(ok) == IF ok THEN "ok" ELSE "failed"

\* no handleSubmit is waiting for its timer
NoSubmission == [items |-> <<>>, subtotal |-> NoTotal]

\* #products before a fetch has filled it: no card, no message
NoGrid == [cards |-> <<>>, message |-> ""]

\* no q in the address of the page; an empty #searchInputProducts
NoQuery == <<>>

\* cart and cartItems.value hold arrays, the page's setup ran to its end
ArrayShape == [cart |-> "array", cartItems |-> "array", wired |-> TRUE]

\* the form of the page is not followed (what its validation returns is an
\* input of the submit); no function under study
NoForm == [kind |-> "none"]
NoArg == <<>>

Init ==
  /\ page = "shop"
  /\ cart = <<>>
  /\ storage = NoEntry
  /\ failures = 0
  /\ pending = <<>>
  /\ disabled = {}
  /\ timers = {}
  /\ rows = 0
  /\ shippingMethod = "standard"
  /\ cartItems = <<>>
  /\ cartTotal = 0
  /\ last = Report("load", "none", "", NoTotal, NoTotal, NoTotal)
  /\ shape = ArrayShape
  /\ isProcessing = FALSE
  /\ submitted = NoSubmission
  /\ peer = <<>>
  /\ grid = NoGrid
  /\ searchInput = NoQuery
  /\ fetches = {}
  /\ orderPlaced = FALSE
  /\ orderNumber = 0
  /\ orderHistory = <<>>
  /\ historyStorage = <<>>
  /\ form = NoForm
  /\ arg = NoArg
  /\ result = NoArg

-----------------------------------------------------------------------------
(* script.js: the cart functions *)

\* cart.find(item => item.name === productName): its index, 0 when there is none
findItem(c, name) ==
  IF \E i \in DOMAIN c : c[i].name = name
  THEN CHOOSE i \in DOMAIN c : c[i].name = name /\ \A j \in 1..(i - 1) : c[j].name # name
  ELSE 0

\* const finalPrice = discountedPrice || product.price   (null and 0 are falsy)
finalPrice(discountedPrice, product) ==
  IF discountedPrice = NullPrice \/ discountedPrice = 0 THEN product.price ELSE discountedPrice

\* an add that leaves only the line of the product added
addToCartAlone(c, productName, discountedPrice, product) ==
  <<[name          |-> productName,
     price         |-> IF discountedPrice = NullPrice \/ discountedPrice = 0
                       THEN product.price ELSE discountedPrice,
     quantity      |-> 1,
     originalPrice |-> product.price,
     isDiscounted  |-> discountedPrice # NullPrice]>>

\* addToCart, the cart after the .then callback found product in the catalog
addToCartFound(c, productName, discountedPrice, product) ==
  LET existingItem == findItem(c, productName)
  IN  IF existingItem # 0
      THEN [c EXCEPT ![existingItem].quantity = @ + 1]
      ELSE Append(c, [name          |-> productName,
                      price         |-> finalPrice(discountedPrice, product),
                      quantity      |-> 1,
                      originalPrice |-> product.price,
                      isDiscounted  |-> discountedPrice # NullPrice])

\* a removal that drops the first line, whatever its name
removeFirstLine(c, productName) == IF c = <<>> THEN c ELSE Tail(c)

\* removeFromCart: cart.filter(item => item.name !== productName)
removeFromCart(c, productName) == SelectSeq(c, LAMBDA item : item.name # productName)

\* a clear that keeps the lines
clearNothing(c) == c

\* clearCart: cart = []
clearCart(c) == <<>>

\* updateCartQuantity that removes only below 0: 0 is written into the line
updateCartQuantityBelowZero(c, productName, newQuantity) ==
  IF newQuantity < 0
  THEN [saves |-> TRUE, cart |-> removeFromCart(c, productName)]
  ELSE LET item == findItem(c, productName)
       IN  IF item # 0
           THEN [saves |-> TRUE, cart |-> [c EXCEPT ![item].quantity = newQuantity]]
           ELSE [saves |-> FALSE, cart |-> c]

\* updateCartQuantity: [changed (a save follows), cart]
updateCartQuantity(c, productName, newQuantity) ==
  IF newQuantity <= 0
  THEN [saves |-> TRUE, cart |-> removeFromCart(c, productName)]
  ELSE LET item == findItem(c, productName)
       IN  IF item # 0
           THEN [saves |-> TRUE, cart |-> [c EXCEPT ![item].quantity = newQuantity]]
           ELSE [saves |-> FALSE, cart |-> c]

\* increaseQuantity
increaseQuantity(c, productName) ==
  LET item == findItem(c, productName)
  IN  IF item # 0
      THEN [saves |-> TRUE, cart |-> [c EXCEPT ![item].quantity = @ + 1]]
      ELSE [saves |-> FALSE, cart |-> c]

\* decreaseQuantity without its quantity > 1 test: a line can reach quantity 0
decreaseQuantityToZero(c, productName) ==
  LET item == findItem(c, productName)
  IN  IF item # 0
      THEN [saves |-> TRUE, cart |-> [c EXCEPT ![item].quantity = @ - 1]]
      ELSE [saves |-> FALSE, cart |-> c]

\* decreaseQuantity
decreaseQuantity(c, productName) ==
  LET item == findItem(c, productName)
  IN  IF item # 0 /\ c[item].quantity > 1
      THEN [saves |-> TRUE, cart |-> [c EXCEPT ![item].quantity = @ - 1]]
      ELSE IF item # 0 /\ c[item].quantity = 1
           THEN [saves |-> TRUE, cart |-> removeFromCart(c, productName)]
           ELSE [saves |-> FALSE, cart |-> c]

\* an incremental save: appends the last line to the stored text
saveLastLineOnly(c, st, ok) ==
  IF ok
  THEN setItem(IF c = <<>> THEN <<>> ELSE st.text \o <<stringifyItem(c[Len(c)])>>)
  ELSE st

\* a save that reads the entry first and keeps the stored lines of other names
saveMergedWithStored(c, st, ok) ==
  IF ok
  THEN setItem(stringify(c \o SelectSeq(loadCartFromStorage(st),
                                        LAMBDA line : \A i \in DOMAIN c : c[i].name # line.name)))
  ELSE st

\* saveCartToStorage: the entry after the write; a throwing setItem is caught
saveCartToStorage(c, st, ok) == IF ok THEN setItem(stringify(c)) ELSE st

\* the tail shared by the modal functions: saveCartToStorage(); showCart()
SaveAndShow(op, newCart) ==
  \E ok \in WriteOutcomes :
    /\ cart' = newCart
    /\ storage' = saveCartToStorage(newCart, storage, ok)
    /\ failures' = IF ok THEN failures ELSE failures + 1
    /\ last' = Report(op, WriteResult(ok), "", showCart(newCart), NoTotal, NoTotal)
    /\ UNCHANGED <<page, pending, disabled, timers, rows, shippingMethod, cartItems, cartTotal>>
    /\ UNCHANGED <<shape, orderVars, formVars, submitted, peer, gridVars>>

\* a handler that found nothing to do: no save, nothing shown
Nothing == UNCHANGED vars

\* showCart; cart.length or cart.map throws when cart is not an array
ShowCart ==
  /\ page \in ModalPages
  /\ last' = IF shape.cart = "array"
             THEN Report("showCart", "none", "", showCart(cart), NoTotal, NoTotal)
             ELSE Report("showCart", "none", "TypeError", NoTotal, NoTotal, NoTotal)
  /\ UNCHANGED <<page, cart, storage, failures, pending, disabled, timers, rows,
                 shippingMethod, cartItems, cartTotal>>
  /\ UNCHANGED <<shape, orderVars, formVars, submitted, peer, gridVars>>

ClearCart ==
  /\ page \in ModalPages
  /\ SaveAndShow("clearCart", clearCart(cart))

RemoveFromCart(name) ==
  /\ page \in ModalPages
  /\ SaveAndShow("removeFromCart", removeFromCart(cart, name))

UpdateCartQuantity(name, n) ==
  /\ page \in ModalPages
  /\ LET r == updateCartQuantity(cart, name, n)
     IN  IF r.saves THEN SaveAndShow("updateCartQuantity", r.cart)
         ELSE Nothing

IncreaseQuantity(name) ==
  /\ page \in ModalPages
  /\ LET r == increaseQuantity(cart, name)
     IN  /\ \A i \in DOMAIN r.cart : r.cart[i].quantity <= MaxQty
         /\ IF r.saves THEN SaveAndShow("increaseQuantity", r.cart)
            ELSE Nothing

DecreaseQuantity(name) ==
  /\ page \in ModalPages
  /\ LET r == decreaseQuantity(cart, name)
     IN  IF r.saves THEN SaveAndShow("decreaseQuantity", r.cart)
         ELSE Nothing

-----------------------------------------------------------------------------
(* script.js: addToCart, a click handler and the callbacks of its fetch *)

\* document.querySelector(`[data-name="${productName}"]`) finds an element
hasButton(name) == name \in CatalogNames

RemoveAt(seq, i) == SubSeq(seq, 1, i - 1) \o SubSeq(seq, i + 1, Len(seq))

\* a click that does not look at the disabled state of the button
AddToCartClickUnguarded(name, limit) ==
  /\ page = "shop"
  /\ Len(pending) < limit
  /\ \E category \in Listings :
       /\ name \in CatalogNames => hasCard(category, name)
       /\ pending' = Append(pending, [name |-> name,
                                      discountedPrice |-> listingDataPrice(category, name)])
  /\ disabled' = IF hasButton(name) THEN disabled \cup {name} ELSE disabled
  /\ UNCHANGED last
  /\ UNCHANGED <<page, cart, storage, failures, timers, rows, shippingMethod,
                 cartItems, cartTotal>>
  /\ UNCHANGED <<shape, orderVars, formVars, submitted, peer, gridVars>>

\* the synchronous part: disabled guard, price attribute, fetch started; the
\* click is on a card of the listing shown, or on a button left over from a
\* catalog that no longer has the product; at most limit fetches are followed
AddToCartClickWithin(name, limit) ==
  /\ page = "shop"
  /\ ~(hasButton(name) /\ name \in disabled)
  /\ Len(pending) < limit
  /\ \E category \in Listings :
       /\ name \in CatalogNames => hasCard(category, name)
       /\ pending' = Append(pending, [name |-> name,
                                      discountedPrice |-> listingDataPrice(category, name)])
  /\ disabled' = IF hasButton(name) THEN disabled \cup {name} ELSE disabled
  /\ UNCHANGED last
  /\ UNCHANGED <<page, cart, storage, failures, timers, rows, shippingMethod,
                 cartItems, cartTotal>>
  /\ UNCHANGED <<shape, orderVars, formVars, submitted, peer, gridVars>>

AddToCartClick(name) == AddToCartClickWithin(name, MaxPending)

\* .then(products => ...): the fetch of call i delivered the catalog
AddToCartThen(i) ==
  /\ i \in DOMAIN pending
  /\ LET call == pending[i]
         f == findProduct(call.name)
     IN  IF ~f.found
         THEN /\ last' = Report("addToCartThen", "none",
                                "Product not found!", NoTotal, NoTotal, NoTotal)
              /\ disabled' = disabled \ {call.name}
              /\ UNCHANGED <<cart, storage, failures, timers>>
         ELSE IF shape.cart # "array"
         THEN \* cart.find throws in the callback: the promise rejects, .catch runs
              /\ last' = Report("addToCartCatch", "none",
                                "Failed to add product to cart. Please try again.",
                                NoTotal, NoTotal, NoTotal)
              /\ disabled' = disabled \ {call.name}
              /\ UNCHANGED <<cart, storage, failures, timers>>
         ELSE LET newCart == addToCartFound(cart, call.name, call.discountedPrice, f.product)
              IN  /\ \A j \in DOMAIN newCart : newCart[j].quantity <= MaxQty
                  /\ \E ok \in WriteOutcomes :
                       /\ cart' = newCart
                       /\ storage' = saveCartToStorage(newCart, storage, ok)
                       /\ failures' = IF ok THEN failures ELSE failures + 1
                       /\ last' = Report("addToCartThen", WriteResult(ok),
                                         "", NoTotal, NoTotal, NoTotal)
                  /\ timers' = IF hasButton(call.name) THEN timers \cup {call.name} ELSE timers
                  /\ UNCHANGED disabled
  /\ pending' = RemoveAt(pending, i)
  /\ UNCHANGED <<page, rows, shippingMethod, cartItems, cartTotal>>
  /\ UNCHANGED <<shape, orderVars, formVars, submitted, peer, gridVars>>

\* .catch(err => ...): the fetch of call i failed (network, !res.ok, bad JSON)
AddToCartCatch(i) ==
  /\ i \in DOMAIN pending
  /\ last' = Report("addToCartCatch", "none",
                    "Failed to add product to cart. Please try again.",
                    NoTotal, NoTotal, NoTotal)
  /\ disabled' = disabled \ {pending[i].name}
  /\ pending' = RemoveAt(pending, i)
  /\ UNCHANGED <<page, cart, storage, failures, timers, rows, shippingMethod,
                 cartItems, cartTotal>>
  /\ UNCHANGED <<shape, orderVars, formVars, submitted, peer, gridVars>>

\* setTimeout(() => { if (btn) btn.disabled = false; }, 1600)
ButtonTimer(name) ==
  /\ name \in timers
  /\ timers' = timers \ {name}
  /\ disabled' = disabled \ {name}
  /\ UNCHANGED last
  /\ UNCHANGED <<page, cart, storage, failures, pending, rows, shippingMethod,
                 cartItems, cartTotal>>
  /\ UNCHANGED <<shape, orderVars, formVars, submitted, peer, gridVars>>

-----------------------------------------------------------------------------
(* A second tab on a shop page: it shares localStorage with the first and  *)
(* has its own script.js cart array                                        *)

\* the second tab loads a page: initializePage, loadCartFromStorage
PeerPageLoad ==
  /\ peer' = loadCartFromStorage(storage)
  /\ UNCHANGED <<page, cart, storage, failures, pending, disabled, timers, rows,
                 shippingMethod, cartItems, cartTotal, last, shape, orderVars,
                 formVars, submitted, gridVars>>

\* saveCartToStorage() in the second tab after its cart became newCart
PeerSave(newCart) ==
  \E ok \in WriteOutcomes :
    /\ peer' = newCart
    /\ storage' = saveCartToStorage(newCart, storage, ok)
    /\ failures' = IF ok THEN failures ELSE failures + 1
    /\ UNCHANGED <<page, cart, pending, disabled, timers, rows, shippingMethod,
                   cartItems, cartTotal, last, shape, orderVars, formVars, submitted, gridVars>>

\* addToCart in the second tab, from the click on a card of a listing to the
\* end of the .then callback
PeerAddToCart(name) ==
  /\ name \in CatalogNames
  /\ \E category \in Listings :
       /\ hasCard(category, name)
       /\ LET newCart == addToCartFound(peer, name, listingDataPrice(category, name),
                                        findProduct(name).product)
          IN  /\ \A j \in DOMAIN newCart : newCart[j].quantity <= MaxQty
              /\ PeerSave(newCart)

\* clearCart in the second tab
PeerClearCart == PeerSave(clearCart(peer))

-----------------------------------------------------------------------------
(* Vue CheckoutApp: loading the cart *)

\* loadCartData at mount of a fresh app: the items, the total, the kind of
\* value left in cartItems.value and the exception that leaves the function
\* (JSON.parse and calculateCartTotal's reduce are not in a try)
loadCartData(st) ==
  IF ~st.present
  THEN [items |-> <<>>, total |-> 0, kind |-> "array", error |-> ""]
  ELSE IF st.json = "array"
  THEN [items |-> parse(st.text), total |-> calculateCartTotal(parse(st.text)),
        kind |-> "array", error |-> ""]
  ELSE IF st.json = "invalid"
  THEN [items |-> <<>>, total |-> 0, kind |-> "array", error |-> "SyntaxError"]
  ELSE [items |-> <<>>, total |-> 0, kind |-> st.json, error |-> "TypeError"]

-----------------------------------------------------------------------------
(* Page loads: DOMContentLoaded runs initializePage, and mounts the Vue    *)
(* app when the page is the Vue checkout                                   *)

\* initializePage / setupCheckout / onMounted on page p, storage entry st
PageLoad(p, st, op, write) ==
  LET loaded == loadCartFromStorage(st)
      kind == loadCartFromStorageKind(st)
      data == loadCartData(st)
  IN  /\ page' = p
      /\ cart' = loaded
      /\ pending' = <<>>
      /\ disabled' = {}
      /\ timers' = {}
      /\ shippingMethod' = "standard"
      \* renderCheckoutCart throws on a cart that is not an array: setupCheckout
      \* stops before it registers the handlers of the page
      /\ shape' = [cart |-> kind,
                   cartItems |-> IF p = "vue" THEN data.kind ELSE "array",
                   wired |-> (p = "checkout" => kind = "array")]
      /\ rows' = IF p = "checkout" THEN Len(loaded) ELSE 0
      /\ cartItems' = IF p = "vue" THEN data.items ELSE <<>>
      /\ cartTotal' = IF p = "vue" THEN data.total ELSE 0
      /\ last' = IF p = "checkout"
                 THEN IF kind = "array"
                      THEN Report(op, write, "", NoTotal,
                                  checkoutSubtotal(loaded), checkoutTotal(loaded, "standard"))
                      ELSE Report(op, write, "TypeError", NoTotal, NoTotal, NoTotal)
                 ELSE IF p = "vue"
                      THEN Report(op, write, data.error, NoTotal, NoTotal, NoTotal)
                      ELSE Report(op, write, "", NoTotal, NoTotal, NoTotal)
      /\ isProcessing' = FALSE
      /\ submitted' = NoSubmission
      /\ orderPlaced' = FALSE
      /\ orderNumber' = 0
      \* onMounted: loadCartData(), then the saved order history
      /\ orderHistory' = IF p = "vue" /\ data.error = "" THEN historyStorage ELSE <<>>
      /\ UNCHANGED <<historyStorage, formVars, peer>>

\* following a link or reloading
Navigate(p) ==
  /\ PageLoad(p, storage, "load", "none")
  /\ UNCHANGED <<storage, failures, gridVars>>

\* goToCheckout: saveCartToStorage(), then checkout.html loads
GoToCheckout(p) ==
  /\ page \in ModalPages
  /\ p \in {"checkout", "vue"}
  /\ \E ok \in WriteOutcomes :
       /\ storage' = saveCartToStorage(cart, storage, ok)
       /\ failures' = IF ok THEN failures ELSE failures + 1
       /\ PageLoad(p, saveCartToStorage(cart, storage, ok), "goToCheckout", WriteResult(ok))
       /\ UNCHANGED gridVars

-----------------------------------------------------------------------------
(* script.js: the plain-DOM checkout table *)

\* const val = Math.max(1, parseInt(this.value) || 1)
qtyInputValue(raw) == IF raw = 0 \/ raw < 1 THEN 1 ELSE raw

\* cart.splice(idx, 1), idx counted from 0
splice(c, idx) == IF idx < Len(c) THEN RemoveAt(c, idx + 1) ELSE c

\* renderCheckoutCart: loadCartFromStorage(), then one table row per line
renderCheckoutCart(st) ==
  [cart |-> loadCartFromStorage(st), rows |-> Len(loadCartFromStorage(st))]

\* totals of the cart in memory, without loading it from storage first
totalWithoutLoad(c, st, method) ==
  [cart     |-> c,
   subtotal |-> checkoutSubtotal(c),
   total    |-> checkoutTotal(c, method)]

\* updateCheckoutTotal: loadCartFromStorage(), then the subtotal and the total
updateCheckoutTotal(c, st, method) ==
  [cart     |-> loadCartFromStorage(st),
   subtotal |-> checkoutSubtotal(loadCartFromStorage(st)),
   total    |-> checkoutTotal(loadCartFromStorage(st), method)]

\* the tail of both table handlers:
\* saveCartToStorage(); renderCheckoutCart(); updateCheckoutTotal()
SaveRenderTotal(op, newCart) ==
  \E ok \in WriteOutcomes :
    LET st == saveCartToStorage(newCart, storage, ok)
        rendered == renderCheckoutCart(st)
        totals == updateCheckoutTotal(rendered.cart, st, shippingMethod)
    IN  /\ storage' = st
        /\ failures' = IF ok THEN failures ELSE failures + 1
        /\ cart' = totals.cart
        /\ rows' = rendered.rows
        /\ last' = Report(op, WriteResult(ok), "", NoTotal, totals.subtotal, totals.total)
        /\ UNCHANGED <<page, pending, disabled, timers, shippingMethod, cartItems, cartTotal>>
        /\ UNCHANGED <<shape, orderVars, formVars, submitted, peer, gridVars>>

\* 'change' on the quantity input of row idx
CheckoutQtyChange(idx, raw) ==
  /\ page = "checkout"
  /\ shape.wired
  /\ idx \in 0..(rows - 1)
  /\ IF idx < Len(cart)
     THEN SaveRenderTotal("qtyChange",
                          [cart EXCEPT ![idx + 1].quantity = qtyInputValue(raw)])
     ELSE \* cart[idx] is undefined: the assignment throws, the handler stops
          /\ last' = Report("qtyChange", "none", "TypeError",
                            NoTotal, NoTotal, NoTotal)
          /\ UNCHANGED <<page, cart, storage, failures, pending, disabled, timers, rows,
                         shippingMethod, cartItems, cartTotal>>
          /\ UNCHANGED <<shape, orderVars, formVars, submitted, peer, gridVars>>

\* 'click' on the remove button of row idx
CheckoutRemoveItem(idx) ==
  /\ page = "checkout"
  /\ shape.wired
  /\ idx \in 0..(rows - 1)
  /\ SaveRenderTotal("removeItem", splice(cart, idx))

\* 'change' on #shipping-method: updateCheckoutTotal
ShippingChange(method) ==
  /\ page = "checkout"
  /\ shape.wired
  /\ method # shippingMethod
  /\ shippingMethod' = method
  /\ cart' = updateCheckoutTotal(cart, storage, method).cart
  /\ last' = Report("shippingChange", "none", "", NoTotal,
                    updateCheckoutTotal(cart, storage, method).subtotal,
                    updateCheckoutTotal(cart, storage, method).total)
  /\ UNCHANGED <<page, storage, failures, pending, disabled, timers, rows,
                 cartItems, cartTotal>>
  /\ UNCHANGED <<shape, orderVars, formVars, submitted, peer, gridVars>>

-----------------------------------------------------------------------------
(* checkout-app.js: CartSummary handlers and CheckoutApp.handleCartUpdate *)

\* handleCartUpdate, the items after the 'update' or 'remove' branch
handleCartUpdate(items, action, itemName, quantity) ==
  IF action = "update"
  THEN LET item == findItem(items, itemName)
       IN  IF item # 0 THEN [items EXCEPT ![item].quantity = quantity] ELSE items
  ELSE IF action = "remove"
       THEN SelectSeq(items, LAMBDA item : item.name # itemName)
       ELSE items

\* CartSummary.removeItem: the event it emits
removeItem(itemName) == [emits |-> TRUE, action |-> "remove", itemName |-> itemName, quantity |-> 0]

\* CartSummary.updateQuantity: the event it emits
updateQuantity(itemName, newQuantity) ==
  IF newQuantity <= 0
  THEN removeItem(itemName)
  ELSE [emits |-> TRUE, action |-> "update", itemName |-> itemName, quantity |-> newQuantity]

NoEvent == [emits |-> FALSE, action |-> "none", itemName |-> "", quantity |-> 0]

\* CartSummary.increaseQuantity
vueIncreaseQuantity(items, itemName) ==
  LET item == findItem(items, itemName)
  IN  IF item # 0 THEN updateQuantity(itemName, items[item].quantity + 1) ELSE NoEvent

\* CartSummary.decreaseQuantity
vueDecreaseQuantity(items, itemName) ==
  LET item == findItem(items, itemName)
  IN  IF item # 0 /\ items[item].quantity > 1
      THEN updateQuantity(itemName, items[item].quantity - 1)
      ELSE IF item # 0 /\ items[item].quantity = 1 THEN removeItem(itemName) ELSE NoEvent

\* the parent handles 'update-cart': mutate, setItem (not caught), recalculate
Emit(op, event) ==
  IF event.emits
  THEN \E ok \in WriteOutcomes :
         LET items == handleCartUpdate(cartItems, event.action, event.itemName, event.quantity)
         IN  /\ \A i \in DOMAIN items : items[i].quantity <= MaxQty
             /\ cartItems' = items
             /\ storage' = IF ok THEN setItem(stringify(items)) ELSE storage
             /\ failures' = IF ok THEN failures ELSE failures + 1
             /\ cartTotal' = IF ok THEN calculateCartTotal(items) ELSE cartTotal
             /\ last' = Report(op, WriteResult(ok),
                               IF ok THEN "" ELSE "QuotaExceededError",
                               NoTotal, NoTotal, NoTotal)
             /\ UNCHANGED <<page, cart, pending, disabled, timers, rows, shippingMethod>>
             /\ UNCHANGED <<shape, orderVars, formVars, submitted, peer, gridVars>>
  ELSE Nothing

VueUpdateQuantity(name, n) ==
  /\ page = "vue"
  /\ shape.cartItems = "array"
  /\ Emit("vueUpdateQuantity", updateQuantity(name, n))

VueIncreaseQuantity(name) ==
  /\ page = "vue"
  /\ shape.cartItems = "array"
  /\ Emit("vueIncreaseQuantity", vueIncreaseQuantity(cartItems, name))

VueDecreaseQuantity(name) ==
  /\ page = "vue"
  /\ shape.cartItems = "array"
  /\ Emit("vueDecreaseQuantity", vueDecreaseQuantity(cartItems, name))

VueRemoveItem(name) ==
  /\ page = "vue"
  /\ shape.cartItems = "array"
  /\ Emit("vueRemoveItem", removeItem(name))

-----------------------------------------------------------------------------
(* The forms: the fields a submit validates, whether the value typed into  *)
(* each passes its validator, and whether its error is displayed           *)

FormKinds == {"contact", "checkout", "vueCheckout", "vueContact"}

\* the fields in the order the submit validates them
AllFields(kind) ==
  IF kind = "contact" THEN <<"name", "email", "phone", "message">>
  ELSE IF kind = "checkout"
  THEN <<"name", "email", "mobile", "address", "card", "expiry", "cvv", "cardname">>
  ELSE IF kind = "vueCheckout"
  THEN <<"name", "email", "mobile", "address", "city", "state", "postcode",
         "cardNumber", "expiryDate", "cvv", "cardName">>
  ELSE <<"name", "email", "phone", "age", "contactPreference", "country", "message">>

\* the fields followed: the first MaxFields of them
Fields(kind) ==
  SubSeq(AllFields(kind), 1,
         IF Len(AllFields(kind)) < MaxFields THEN Len(AllFields(kind)) ELSE MaxFields)

\* the form as the page shows it first: every field empty (none of the
\* fields followed accepts the empty string), no error, no acknowledgment
FreshForm(kind) ==
  [kind      |-> kind,
   valid     |-> [i \in 1..Len(Fields(kind)) |-> FALSE],
   error     |-> [i \in 1..Len(Fields(kind)) |-> FALSE],
   ack       |-> FALSE,
   parentAck |-> FALSE]

\* validateField(name) / validateName() ...: runs the validator of field i
\* and shows or hides its error
validateField(f, i) == [f EXCEPT !.error[i] = ~f.valid[i]]

RECURSIVE forEachValidate(_, _)
\* Object.keys(validators).forEach(fieldName => { if (!validateField(...)) ... })
\* and the array literal [validateName(), validateEmail(), ...]: every call is made
forEachValidate(f, i) ==
  IF i > Len(f.valid) THEN f ELSE forEachValidate(validateField(f, i), i + 1)

RECURSIVE every(_, _)
\* fields.every(field => validateField(field)): stops at the first false
every(f, i) ==
  IF i > Len(f.valid) THEN [form |-> f, ok |-> TRUE]
  ELSE IF f.valid[i] THEN every(validateField(f, i), i + 1)
  ELSE [form |-> validateField(f, i), ok |-> FALSE]

\* isValid / validations.every(Boolean) after every validator ran
allPass(f) == \A i \in DOMAIN f.valid : f.valid[i]

\* Vue CheckoutForm / ContactForm: validateForm
validateForm(f) == [form |-> forEachValidate(f, 1), ok |-> allPass(f)]

\* the inputs of the form can be typed into: the Vue checkout form is
\* rendered v-if="!orderPlaced", the Vue contact form v-show="!showSuccess"
formShown ==
  /\ form.kind \in FormKinds
  /\ form.kind = "vueCheckout" => ~orderPlaced
  /\ form.kind = "vueContact" => ~form.ack

\* 'input' on field i: the value typed passes its validator or not. The
\* script.js forms validate the field at once; the Vue forms at blur only
FormInput(i, ok) ==
  /\ formShown
  /\ i \in DOMAIN form.valid
  /\ form' = IF form.kind \in {"contact", "checkout"}
             THEN validateField([form EXCEPT !.valid[i] = ok], i)
             ELSE [form EXCEPT !.valid[i] = ok]
  /\ UNCHANGED <<page, cart, storage, failures, pending, disabled, timers, rows,
                 shippingMethod, cartItems, cartTotal, last, shape, orderVars,
                 arg, submitted, peer, gridVars, result>>

\* 'blur' on field i of a Vue form: the validator bound by @blur
FormBlur(i) ==
  /\ formShown
  /\ form.kind \in {"vueCheckout", "vueContact"}
  /\ i \in DOMAIN form.valid
  /\ form' = validateField(form, i)
  /\ UNCHANGED <<page, cart, storage, failures, pending, disabled, timers, rows,
                 shippingMethod, cartItems, cartTotal, last, shape, orderVars,
                 arg, submitted, peer, gridVars, result>>

\* script.js setupContactForm: 'submit' on #contactForm
ContactSubmit ==
  /\ form.kind = "contact"
  /\ LET validated == forEachValidate(form, 1)
     IN  IF allPass(form)
         THEN \* the old #formAlert removed, a new one inserted, this.reset(),
              \* validation classes and errors cleared
              form' = [FreshForm("contact") EXCEPT !.ack = TRUE]
         ELSE form' = validated
  /\ UNCHANGED <<page, cart, storage, failures, pending, disabled, timers, rows,
                 shippingMethod, cartItems, cartTotal, last, shape, orderVars,
                 arg, submitted, peer, gridVars, result>>

\* Vue ContactForm.handleSubmit, and ContactApp.handleFormSubmission on its emit
VueContactSubmit ==
  /\ form.kind = "vueContact"
  /\ formShown
  /\ LET v == validateForm(form)
     IN  form' = IF v.ok
                 THEN [v.form EXCEPT !.ack = TRUE, !.parentAck = TRUE]
                 ELSE v.form
  /\ UNCHANGED <<page, cart, storage, failures, pending, disabled, timers, rows,
                 shippingMethod, cartItems, cartTotal, last, shape, orderVars,
                 arg, submitted, peer, gridVars, result>>

\* Vue ContactForm.resetForm: the "Submit Another Message" button
ResetForm ==
  /\ form.kind = "vueContact"
  /\ form.ack
  /\ form' = [FreshForm("vueContact") EXCEPT !.parentAck = form.parentAck]
  /\ UNCHANGED <<page, cart, storage, failures, pending, disabled, timers, rows,
                 shippingMethod, cartItems, cartTotal, last, shape, orderVars,
                 arg, submitted, peer, gridVars, result>>

\* Vue ContactApp.resetAcknowledgement: the button of the parent's acknowledgement
ResetAcknowledgement ==
  /\ form.kind = "vueContact"
  /\ form.parentAck
  /\ form' = [form EXCEPT !.parentAck = FALSE]
  /\ UNCHANGED <<page, cart, storage, failures, pending, disabled, timers, rows,
                 shippingMethod, cartItems, cartTotal, last, shape, orderVars,
                 arg, submitted, peer, gridVars, result>>

-----------------------------------------------------------------------------
(* script.js: the submit handler of the plain-DOM checkout form *)

EmptyCartMessage == "Your cart is empty."
InvalidFieldsMessage == "Please correct the highlighted fields."
SuccessMessage == "Payment Successful!"

\* 'submit' on #checkout-form; allValid is what fields.every(validateField)
\* returns for the values typed into the form
CheckoutSubmit(allValid) ==
  /\ page = "checkout"
  /\ shape.wired
  /\ form.kind = "checkout" => allValid = every(form, 1).ok
  /\ LET loaded == loadCartFromStorage(storage)
     IN  IF Len(loaded) = 0
         THEN /\ cart' = loaded
              /\ last' = Report("submit", "none", EmptyCartMessage,
                                NoTotal, NoTotal, NoTotal)
              /\ UNCHANGED <<storage, rows, shippingMethod, form>>
         ELSE IF ~allValid
         THEN /\ cart' = loaded
              /\ last' = Report("submit", "none", InvalidFieldsMessage,
                                NoTotal, NoTotal, NoTotal)
              /\ form' = IF form.kind = "checkout" THEN every(form, 1).form ELSE form
              /\ UNCHANGED <<storage, rows, shippingMethod>>
         ELSE \* localStorage.removeItem('cart'); cart = []; renderCheckoutCart();
              \* updateCheckoutTotal(); form.reset()
              LET rendered == renderCheckoutCart(NoEntry)
                  totals == updateCheckoutTotal(rendered.cart, NoEntry, shippingMethod)
              IN  /\ storage' = NoEntry
                  /\ cart' = totals.cart
                  /\ rows' = rendered.rows
                  /\ last' = Report("submit", "none", SuccessMessage,
                                    NoTotal, totals.subtotal, totals.total)
                  \* form.reset() puts the select back to its default when the
                  \* select is a control of the form, which the page decides
                  /\ \E inForm \in BOOLEAN :
                       shippingMethod' = IF inForm THEN "standard" ELSE shippingMethod
                  /\ form' = IF form.kind = "checkout" THEN FreshForm("checkout") ELSE form
  /\ UNCHANGED <<page, failures, pending, disabled, timers, cartItems, cartTotal>>
  /\ UNCHANGED <<shape, orderVars, arg, submitted, peer, gridVars, result>>

-----------------------------------------------------------------------------
(* checkout-app.js: CheckoutForm.handleSubmit and CheckoutApp.handleOrderPlaced *)

\* the builds of Vue a page can load: the development build rethrows what an
\* event handler throws, the production build logs it
VueBuilds == {"dev", "prod"}

\* values of Date.now() at the end of the delay
Timestamps == {1, 2}

\* the order handed to 'order-placed'
orderData(number, items, subtotal) ==
  [orderNumber |-> number, items |-> items, subtotal |-> subtotal]

\* a handleSubmit that goes on to the payment whatever validateForm returns
HandleSubmitUnvalidated(valid) ==
  /\ page = "vue"
  /\ shape.cartItems = "array"
  /\ ~orderPlaced
  /\ ~isProcessing
  /\ Len(orderHistory) < MaxOrders
  /\ isProcessing' = TRUE
  /\ submitted' = [items |-> cartItems, subtotal |-> cartTotal]
  /\ last' = Report("handleSubmit", "none", "", NoTotal, NoTotal, NoTotal)
  /\ UNCHANGED <<page, cart, storage, failures, pending, disabled, timers, rows,
                 shippingMethod, cartItems, cartTotal, shape, formVars, peer, gridVars>>
  /\ UNCHANGED <<orderPlaced, orderNumber, orderHistory, historyStorage>>

\* a handleSubmit that can be started while a run is waiting for its timer
HandleSubmitWhileProcessing(valid) ==
  /\ page = "vue"
  /\ shape.cartItems = "array"
  /\ ~orderPlaced        \* the form is rendered v-if="!orderPlaced"
  /\ valid => Len(orderHistory) < MaxOrders
  /\ form.kind = "vueCheckout" => valid = validateForm(form).ok
  /\ form' = IF form.kind = "vueCheckout" THEN validateForm(form).form ELSE form
  /\ isProcessing' = valid
  /\ submitted' = IF valid THEN [items |-> cartItems, subtotal |-> cartTotal]
                   ELSE NoSubmission
  /\ last' = Report("handleSubmit", "none", "", NoTotal, NoTotal, NoTotal)
  /\ UNCHANGED <<page, cart, storage, failures, pending, disabled, timers, rows,
                 shippingMethod, cartItems, cartTotal, shape, arg, peer, gridVars, result>>
  /\ UNCHANGED <<orderPlaced, orderNumber, orderHistory, historyStorage>>

\* handleSubmit up to its await: validateForm, then isProcessing = true
HandleSubmit(valid) ==
  /\ page = "vue"
  /\ shape.cartItems = "array"
  /\ ~orderPlaced        \* the form is rendered v-if="!orderPlaced"
  /\ ~isProcessing       \* the submit button is :disabled="isProcessing"
  /\ valid => Len(orderHistory) < MaxOrders
  /\ form.kind = "vueCheckout" => valid = validateForm(form).ok
  /\ form' = IF form.kind = "vueCheckout" THEN validateForm(form).form ELSE form
  /\ isProcessing' = valid
  /\ submitted' = IF valid THEN [items |-> cartItems, subtotal |-> cartTotal]
                   ELSE NoSubmission
  /\ last' = Report("handleSubmit", "none", "", NoTotal, NoTotal, NoTotal)
  /\ UNCHANGED <<page, cart, storage, failures, pending, disabled, timers, rows,
                 shippingMethod, cartItems, cartTotal, shape, arg, peer, gridVars, result>>
  /\ UNCHANGED <<orderPlaced, orderNumber, orderHistory, historyStorage>>

\* handleSubmit after the 2000 ms timer: order number, emit('order-placed')
\* which runs handleOrderPlaced, orderPlaced = true, clearCart() of script.js,
\* and the finally block
HandleSubmitResume(now, build) ==
  /\ page = "vue"
  /\ isProcessing
  /\ \E ok \in WriteOutcomes :
       LET order == orderData(now, cartItems, cartTotal)
           pushed == Append(orderHistory, order)
           \* setItem('orderHistory', ...) threw and emit let it through
           rethrown == ~ok /\ build = "dev"
           failed == IF ok THEN failures ELSE failures + 1
       IN  /\ orderNumber' = now
           /\ orderHistory' = pushed
           /\ historyStorage' = IF ok THEN pushed ELSE historyStorage
           /\ cartItems' = IF ok THEN <<>> ELSE cartItems
           /\ cartTotal' = IF ok THEN 0 ELSE cartTotal
           /\ orderPlaced' = ~rethrown
           /\ isProcessing' = FALSE
           /\ submitted' = NoSubmission
           /\ IF rethrown
              THEN /\ failures' = failed
                   /\ UNCHANGED <<cart, storage>>
              ELSE \E saved \in IF failed < MaxWriteFailures THEN {TRUE, FALSE} ELSE {TRUE} :
                     /\ cart' = clearCart(cart)
                     /\ storage' = saveCartToStorage(clearCart(cart),
                                                     IF ok THEN NoEntry ELSE storage, saved)
                     /\ failures' = IF saved THEN failed ELSE failed + 1
           /\ last' = Report("handleSubmitResume", WriteResult(ok),
                             IF ok THEN "" ELSE "QuotaExceededError",
                             NoTotal, NoTotal, NoTotal)
  /\ UNCHANGED <<page, pending, disabled, timers, rows, shippingMethod, shape, formVars, peer, gridVars>>

-----------------------------------------------------------------------------
(* The expiry validators of the two checkout forms. A text is a sequence   *)
(* of characters; the current date is a year and a getMonth() value        *)

DigitChars == <<"0", "1", "2", "3", "4", "5", "6", "7", "8", "9">>
Digits == {DigitChars[i] : i \in DOMAIN DigitChars}

\* the value of a digit character
digitValue(c) == (CHOOSE i \in DOMAIN DigitChars : DigitChars[i] = c) - 1

\* parseInt(x, 10) of a text of two digits
parseInt2(x) == digitValue(x[1]) * 10 + digitValue(x[2])

\* /^\d{2}\/\d{2}$/.test(s)
matchesTwoSlashTwo(s) ==
  /\ Len(s) = 5
  /\ s[1] \in Digits /\ s[2] \in Digits
  /\ s[3] = "/"
  /\ s[4] \in Digits /\ s[5] \in Digits

\* /^(0[1-9]|1[0-2])\/\d{2}$/.test(s)
matchesMonthSlashTwo(s) ==
  /\ Len(s) = 5
  /\ \/ s[1] = "0" /\ s[2] \in Digits \ {"0"}
     \/ s[1] = "1" /\ s[2] \in {"0", "1", "2"}
  /\ s[3] = "/"
  /\ s[4] \in Digits /\ s[5] \in Digits

\* new Date(year, monthIndex): dates of this form are ordered as the number
\* of months they are away from year 0 (monthIndex 12 is January of year + 1)
newDate(year, monthIndex) == year * 12 + monthIndex

\* script.js validators.expiry(s): the error message, "" for null
validatorsExpiry(s, now) ==
  IF ~matchesTwoSlashTwo(s) THEN "Expiry must be MM/YY"
  ELSE LET mm == parseInt2(SubSeq(s, 1, 2))
           yy == parseInt2(SubSeq(s, 4, 5))
       IN  IF mm < 1 \/ mm > 12 THEN "Invalid month"
           ELSE IF newDate(2000 + yy, mm) < newDate(now.year, now.month + 1)
                THEN "Card is expired"
                ELSE ""

\* Vue CheckoutForm.validateExpiryDate: the message left in errors.expiryDate
validateExpiryDate(s) ==
  IF s = <<>> THEN "Expiry date is required"
  ELSE IF ~matchesMonthSlashTwo(s) THEN "Please enter a valid expiry date (MM/YY)"
  ELSE ""

\* the expiry texts and current dates the validators are applied to
ExpiryMonths == {<<a, b>> : a \in {"0", "1"}, b \in Digits}
ExpiryYears == {<<"2", b>> : b \in {"5", "6", "7"}}
CurrentDates == {[year |-> y, month |-> m] : y \in {2026}, m \in 0..11}
ExpiryInputs ==
  {[text |-> mm \o <<"/">> \o yy, now |-> d] :
     mm \in ExpiryMonths, yy \in ExpiryYears, d \in CurrentDates}

\* the plain-DOM validator applied to the text of #expiry
ValidateExpiryPlain ==
  /\ arg \in ExpiryInputs
  /\ result = NoArg
  /\ result' = [by |-> "validators.expiry", error |-> validatorsExpiry(arg.text, arg.now)]
  /\ UNCHANGED <<page, cart, storage, failures, pending, disabled, timers, rows,
                 shippingMethod, cartItems, cartTotal, last, shape, orderVars,
                 form, arg, submitted, peer, gridVars>>

\* the Vue validator applied to formData.expiryDate
ValidateExpiryVue ==
  /\ arg \in ExpiryInputs
  /\ result = NoArg
  /\ result' = [by |-> "validateExpiryDate", error |-> validateExpiryDate(arg.text)]
  /\ UNCHANGED <<page, cart, storage, failures, pending, disabled, timers, rows,
                 shippingMethod, cartItems, cartTotal, last, shape, orderVars,
                 form, arg, submitted, peer, gridVars>>

-----------------------------------------------------------------------------
(* The field validators of the forms, applied to texts. A text is a        *)
(* sequence of characters; the only white space in the texts is " "        *)

\* s.replace(/\D/g, '')
replaceNonDigits(s) == SelectSeq(s, LAMBDA c : c \in Digits)

\* s.replace(/\s/g, '')
replaceSpaces(s) == SelectSeq(s, LAMBDA c : c # " ")

\* s.trim()
trim(s) ==
  IF \A i \in DOMAIN s : s[i] = " " THEN <<>>
  ELSE LET inked == {i \in DOMAIN s : s[i] # " "}
           first == CHOOSE i \in inked : \A k \in inked : i <= k
           final == CHOOSE i \in inked : \A k \in inked : k <= i
       IN  SubSeq(s, first, final)

\* s.slice(0, n), s.substring(0, n)
slice(s, n) == SubSeq(s, 1, IF Len(s) < n THEN Len(s) ELSE n)

\* digits.replace(/(\d{4})(?=\d)/g, '$1 ').trim(), and
\* value.replace(/(.{4})/g, '$1 ').trim() of a text of digits
groupsOfFour(d) ==
  [i \in 1..(IF d = <<>> THEN 0 ELSE Len(d) + (Len(d) - 1) \div 4) |->
     IF i % 5 = 0 THEN " " ELSE d[i - i \div 5]]

\* script.js validators.card(s): the error message, "" for null
validatorsCard(s) ==
  LET d == replaceNonDigits(s)
  IN  IF Len(d) # 16 THEN "Card number must be 16 digits" ELSE ""

\* /^\d{4}\s\d{4}\s\d{4}\s\d{4}$/.test(s)
matchesCardRegex(s) ==
  /\ Len(s) = 19
  /\ \A i \in 1..19 : IF i % 5 = 0 THEN s[i] = " " ELSE s[i] \in Digits

\* Vue CheckoutForm.validateCardNumber: the message left in errors.cardNumber
validateCardNumber(s) ==
  IF trim(s) = <<>> THEN "Card number is required"
  ELSE IF ~matchesCardRegex(s)
       THEN "Please enter a valid card number (1234 5678 9012 3456)"
       ELSE ""

\* the value the input handler of #card leaves in the field
cardInputValue(s) == groupsOfFour(slice(replaceNonDigits(s), 16))

\* n copies of the character c, separated by sep after every fourth
repeated(c, n, sep) ==
  LET width == IF sep = <<>> THEN n ELSE n + (n - 1) \div 4
  IN  [i \in 1..width |-> IF sep # <<>> /\ i % 5 = 0 THEN sep[1] ELSE c]

\* the card texts the validators are applied to: 15, 16 and 17 digits,
\* unseparated or in groups of four, with and without a further character
CardLengths == 15..17
CardTexts ==
  {repeated(c, n, sep) \o tail :
     c \in {"4", "0"}, n \in CardLengths, sep \in {<<>>, <<" ">>, <<"-">>},
     tail \in {<<>>, <<" ">>, <<"x">>}}

\* the characters of the class [\d\s+\-()]
PhoneChars == Digits \cup {" ", "+", "-", "(", ")"}

\* /^[\d\s+\-()]+$/.test(s)
matchesPhoneChars(s) == s # <<>> /\ \A i \in DOMAIN s : s[i] \in PhoneChars

\* /^[\d\s+\-()]{lo,hi}$/.test(s)
matchesPhoneCharsBetween(s, lo, hi) ==
  /\ Len(s) >= lo /\ Len(s) <= hi
  /\ \A i \in DOMAIN s : s[i] \in PhoneChars

\* script.js contact validators.phone(value): the error message, "" for null
validatorsPhone(value) ==
  IF trim(value) = <<>> THEN "Please enter your phone number"
  ELSE LET cleanPhone == replaceNonDigits(value)
       IN  IF Len(cleanPhone) < 7 THEN "Phone number must be at least 7 digits"
           ELSE IF Len(cleanPhone) > 15 THEN "Phone number cannot exceed 15 digits"
           ELSE ""

\* script.js checkout validators.mobile(s): the error message, "" for null
validatorsMobile(s) ==
  IF trim(s) = <<>> THEN "Please enter your mobile number"
  ELSE LET d == replaceNonDigits(s)
       IN  IF Len(d) < 8 \/ Len(d) > 15 THEN "Mobile must be 8-15 digits"
           ELSE IF ~matchesPhoneChars(s) THEN "Contains invalid characters"
           ELSE ""

\* Vue CheckoutForm.validateMobile: the message left in errors.mobile
validateMobile(s) ==
  IF trim(s) = <<>> THEN "Mobile number is required"
  ELSE IF ~matchesPhoneCharsBetween(s, 10, 15) THEN "Please enter a valid mobile number"
  ELSE ""

\* Vue ContactForm.validatePhone: the message left in errors.phone
validatePhone(s) ==
  IF trim(s) = <<>> THEN "Phone number is required"
  ELSE IF ~matchesPhoneCharsBetween(s, 7, 15) THEN "Please enter a valid phone number"
  ELSE ""

\* the phone texts the validators are applied to: runs of digits around the
\* limits, bare or in groups of four, with and without '+', '(' or a letter
PhoneLengths == {6, 7, 8, 9, 10, 15, 16}
PhoneTexts ==
  {<<>>, <<" ">>} \cup
  {head \o repeated("1", n, sep) \o tail :
     head \in {<<>>, <<"+">>, <<"(">>}, n \in PhoneLengths,
     sep \in {<<>>, <<" ">>, <<"-">>}, tail \in {<<>>, <<"x">>}}

\* the characters of the class [a-zA-Z]
Letters ==
  {"a", "b", "c", "d", "e", "f", "g", "h", "i", "j", "k", "l", "m",
   "n", "o", "p", "q", "r", "s", "t", "u", "v", "w", "x", "y", "z",
   "A", "B", "C", "D", "E", "F", "G", "H", "I", "J", "K", "L", "M",
   "N", "O", "P", "Q", "R", "S", "T", "U", "V", "W", "X", "Y", "Z"}

\* /^[a-zA-Z\s'-]+$/.test(s)
matchesNameChars(s) ==
  s # <<>> /\ \A i \in DOMAIN s : s[i] \in Letters \cup {" ", "'", "-"}

\* script.js checkout validators.name(s): the error message, "" for null
validatorsName(s) ==
  IF trim(s) = <<>> THEN "Please enter your full name"
  ELSE IF Len(trim(s)) < 2 THEN "Name must be at least 2 characters"
  ELSE IF ~matchesNameChars(s) THEN "Only letters, spaces, apostrophes, hyphens allowed"
  ELSE ""

\* script.js checkout validators.cardname(s): the error message, "" for null
validatorsCardname(s) ==
  IF trim(s) = <<>> THEN "Please enter the name on your card"
  ELSE IF Len(trim(s)) < 2 THEN "Name on card looks too short"
  ELSE IF ~matchesNameChars(s) THEN "Only letters, spaces, apostrophes, hyphens allowed"
  ELSE ""

\* Vue CheckoutForm.validateName: the message left in errors.name
validateName(s) == IF trim(s) = <<>> THEN "Full name is required" ELSE ""

\* Vue CheckoutForm.validateCardName: the message left in errors.cardName
validateCardName(s) == IF trim(s) = <<>> THEN "Name on card is required" ELSE ""

\* [^\s@]+ matches the whole of s
matchesNoSpaceNoAt(s) == s # <<>> /\ \A i \in DOMAIN s : s[i] \notin {" ", "@"}

\* /^[^\s@]+@[^\s@]+\.[^\s@]+$/.test(s)
matchesEmailRegex(s) ==
  \E at \in DOMAIN s, dot \in DOMAIN s :
    /\ s[at] = "@" /\ s[dot] = "."
    /\ at < dot
    /\ matchesNoSpaceNoAt(SubSeq(s, 1, at - 1))
    /\ matchesNoSpaceNoAt(SubSeq(s, at + 1, dot - 1))
    /\ matchesNoSpaceNoAt(SubSeq(s, dot + 1, Len(s)))

\* script.js checkout validators.email(s): the error message, "" for null
validatorsEmail(s) ==
  IF trim(s) = <<>> THEN "Please enter your email"
  ELSE IF ~matchesEmailRegex(s) THEN "Enter a valid email"
  ELSE ""

\* Vue CheckoutForm.validateEmail: the message left in errors.email
validateEmail(s) ==
  IF trim(s) = <<>> THEN "Email is required"
  ELSE IF ~matchesEmailRegex(s) THEN "Please enter a valid email address"
  ELSE ""

\* /^\d{lo,hi}$/.test(s)
matchesDigitsBetween(s, lo, hi) ==
  /\ Len(s) >= lo /\ Len(s) <= hi
  /\ \A i \in DOMAIN s : s[i] \in Digits

\* script.js checkout validators.cvv(s): the error message, "" for null
validatorsCvv(s) == IF ~matchesDigitsBetween(s, 3, 3) THEN "CVV must be 3 digits" ELSE ""

\* Vue CheckoutForm.validateCvv: the message left in errors.cvv
validateCvv(s) ==
  IF trim(s) = <<>> THEN "CVV is required"
  ELSE IF ~matchesDigitsBetween(s, 3, 4) THEN "Please enter a valid CVV (3-4 digits)"
  ELSE ""

\* the names, e-mail addresses and security codes the validators are applied to
NameTexts ==
  {<<>>, <<" ">>, <<"A">>, <<" ", "A", " ">>, <<"A", "l">>, <<"A", "l", "1">>,
   <<"O", "'", "N">>, <<"a", "-", "b">>, <<"A", " ", "B">>, <<"4", "2">>}
EmailTexts ==
  {<<>>, <<" ">>, <<"a", "@", "b", ".", "c">>, <<"a", "@", "b">>, <<"@", "b", ".", "c">>,
   <<"a", "@", ".", "c">>, <<"a", "@", "b", ".">>, <<"a", " ", "@", "b", ".", "c">>,
   <<"a", "@", "@", "b", ".", "c">>, <<"a", "@", "b", ".", "c", ".", "d">>,
   <<"a", ".", "b", "@", "c", ".", "d">>, <<"a", "b", ".", "c">>}
CvvTexts ==
  {<<>>, <<" ">>, <<"1", "2">>, <<"1", "2", "3">>, <<"1", "2", "3", "4">>,
   <<"1", "2", "3", "4", "5">>, <<"1", "2", "a">>, <<" ", "1", "2", "3">>,
   <<"1", "2", "3", " ">>}

\* the texts of each field
FieldTexts(field) ==
  CASE field = "card" -> CardTexts
    [] field \in {"phone", "mobile"} -> PhoneTexts
    [] field \in {"name", "cardname"} -> NameTexts
    [] field = "email" -> EmailTexts
    [] field = "cvv" -> CvvTexts

ValidatedFields == {"card", "phone", "mobile", "name", "cardname", "email", "cvv"}
ValidatorInputs ==
  UNION {{[field |-> f, text |-> t] : t \in FieldTexts(f)} : f \in ValidatedFields}

\* the plain-DOM validator of a field: the error message, "" for null
plainValidator(field, s) ==
  CASE field = "card" -> validatorsCard(s)
    [] field = "phone" -> validatorsPhone(s)
    [] field = "mobile" -> validatorsMobile(s)
    [] field = "name" -> validatorsName(s)
    [] field = "cardname" -> validatorsCardname(s)
    [] field = "email" -> validatorsEmail(s)
    [] field = "cvv" -> validatorsCvv(s)

\* the Vue validator of a field: the message left in errors
vueValidator(field, s) ==
  CASE field = "card" -> validateCardNumber(s)
    [] field = "phone" -> validatePhone(s)
    [] field = "mobile" -> validateMobile(s)
    [] field = "name" -> validateName(s)
    [] field = "cardname" -> validateCardName(s)
    [] field = "email" -> validateEmail(s)
    [] field = "cvv" -> validateCvv(s)

\* script.js validateField(name): the validator applied to the field's value
ValidatePlain ==
  /\ arg \in ValidatorInputs
  /\ result = NoArg
  /\ result' = [by |-> "plain", value |-> arg.text,
                error |-> plainValidator(arg.field, arg.text)]
  /\ UNCHANGED <<page, cart, storage, failures, pending, disabled, timers, rows,
                 shippingMethod, cartItems, cartTotal, last, shape, orderVars,
                 form, arg, submitted, peer, gridVars>>

\* the Vue validator applied to the field of formData
ValidateVue ==
  /\ arg \in ValidatorInputs
  /\ result = NoArg
  /\ result' = [by |-> "vue", value |-> arg.text,
                error |-> vueValidator(arg.field, arg.text)]
  /\ UNCHANGED <<page, cart, storage, failures, pending, disabled, timers, rows,
                 shippingMethod, cartItems, cartTotal, last, shape, orderVars,
                 form, arg, submitted, peer, gridVars>>

\* the input handler of #card: the value is reduced to at most 16 digits in
\* groups of four, then validateField('card') reads the new value
CardInput ==
  /\ arg \in ValidatorInputs
  /\ arg.field = "card"
  /\ result = NoArg
  /\ result' = [by |-> "cardInput", value |-> cardInputValue(arg.text),
                error |-> validatorsCard(cardInputValue(arg.text))]
  /\ UNCHANGED <<page, cart, storage, failures, pending, disabled, timers, rows,
                 shippingMethod, cartItems, cartTotal, last, shape, orderVars,
                 form, arg, submitted, peer, gridVars>>

-----------------------------------------------------------------------------

\* quantities passed to updateCartQuantity / updateQuantity
Quantities == 0..MaxQty

\* values typed into a quantity input of the checkout table
RawInputs == (-1)..MaxQty

Next ==
  \/ ShowCart
  \/ ClearCart
  \/ \E name \in Names : RemoveFromCart(name)
  \/ \E name \in Names, n \in Quantities : UpdateCartQuantity(name, n)
  \/ \E name \in Names : IncreaseQuantity(name)
  \/ \E name \in Names : DecreaseQuantity(name)
  \/ \E name \in Names : AddToCartClick(name)
  \/ \E i \in 1..MaxPending : AddToCartThen(i)
  \/ \E i \in 1..MaxPending : AddToCartCatch(i)
  \/ \E name \in Names : ButtonTimer(name)
  \/ \E p \in Pages : Navigate(p)
  \/ \E p \in Pages : GoToCheckout(p)
  \/ \E idx \in 0..Len(Catalog), raw \in RawInputs : CheckoutQtyChange(idx, raw)
  \/ \E idx \in 0..Len(Catalog) : CheckoutRemoveItem(idx)
  \/ \E method \in ShippingMethods : ShippingChange(method)
  \/ \E name \in Names, n \in Quantities : VueUpdateQuantity(name, n)
  \/ \E name \in Names : VueIncreaseQuantity(name)
  \/ \E name \in Names : VueDecreaseQuantity(name)
  \/ \E name \in Names : VueRemoveItem(name)

Spec == Init /\ [][Next]_vars

-----------------------------------------------------------------------------
(* The site opened on a stored 'cart' value that is not the text of an     *)
(* array of lines: the entry was written by something other than           *)
(* saveCartToStorage. The handlers are those that read the cart.           *)

\* stored values that do not parse, or parse to something that is not an array
CorruptEntries ==
  {[present |-> TRUE, json |-> k, text |-> <<>>] : k \in JsonKinds \ {"array"}}

\* the shop page after DOMContentLoaded: initializePage ran loadCartFromStorage
InitLoad ==
  /\ storage \in CorruptEntries
  /\ page = "shop"
  /\ cart = loadCartFromStorage(storage)
  /\ shape = [cart |-> loadCartFromStorageKind(storage), cartItems |-> "array",
              wired |-> TRUE]
  /\ failures = 0
  /\ pending = <<>>
  /\ disabled = {}
  /\ timers = {}
  /\ rows = 0
  /\ shippingMethod = "standard"
  /\ cartItems = <<>>
  /\ cartTotal = 0
  /\ last = Report("load", "none", "", NoTotal, NoTotal, NoTotal)
  /\ isProcessing = FALSE
  /\ submitted = NoSubmission
  /\ peer = <<>>
  /\ grid = NoGrid
  /\ searchInput = NoQuery
  /\ fetches = {}
  /\ orderPlaced = FALSE
  /\ orderNumber = 0
  /\ orderHistory = <<>>
  /\ historyStorage = <<>>
  /\ form = NoForm
  /\ arg = NoArg
  /\ result = NoArg

NextLoad ==
  \/ \E p \in Pages : Navigate(p)
  \/ ShowCart
  \/ \E name \in Names : AddToCartClick(name)
  \/ \E i \in 1..MaxPending : AddToCartThen(i)
  \/ \E i \in 1..MaxPending : AddToCartCatch(i)
  \/ \E name \in Names : ButtonTimer(name)
  \/ \E method \in ShippingMethods : ShippingChange(method)
  \/ \E allValid \in BOOLEAN : CheckoutSubmit(allValid)

SpecLoad == InitLoad /\ [][NextLoad]_vars

-----------------------------------------------------------------------------
(* A visit of the checkout pages with the cart the shop left in storage *)

CheckoutPages == {"checkout", "vue"}

\* carts the shop pages write: lines added from the "All" listing
CartOfA == addToCartFound(<<>>, "A", listingDataPrice("All", "A"), findProduct("A").product)
CartOfAC == addToCartFound(CartOfA, "C", listingDataPrice("All", "C"), findProduct("C").product)
ShopCarts == {<<>>, CartOfA, CartOfAC}

\* the shop page, its cart saved, before the link to a checkout page is followed
InitCheckout ==
  /\ \E c \in ShopCarts : cart = c /\ storage = saveCartToStorage(c, NoEntry, TRUE)
  /\ page = "shop"
  /\ shape = ArrayShape
  /\ failures = 0
  /\ pending = <<>>
  /\ disabled = {}
  /\ timers = {}
  /\ rows = 0
  /\ shippingMethod = "standard"
  /\ cartItems = <<>>
  /\ cartTotal = 0
  /\ last = Report("load", "none", "", NoTotal, NoTotal, NoTotal)
  /\ isProcessing = FALSE
  /\ submitted = NoSubmission
  /\ peer = <<>>
  /\ grid = NoGrid
  /\ searchInput = NoQuery
  /\ fetches = {}
  /\ orderPlaced = FALSE
  /\ orderNumber = 0
  /\ orderHistory = <<>>
  /\ historyStorage = <<>>
  /\ form = NoForm
  /\ arg = NoArg
  /\ result = NoArg

NextCheckout ==
  \/ \E p \in CheckoutPages : Navigate(p)
  \/ ShowCart
  \/ ClearCart
  \/ \E name \in Names : RemoveFromCart(name)
  \/ \E name \in Names, n \in Quantities : UpdateCartQuantity(name, n)
  \/ \E name \in Names : IncreaseQuantity(name)
  \/ \E name \in Names : DecreaseQuantity(name)
  \/ \E idx \in 0..Len(Catalog), raw \in RawInputs : CheckoutQtyChange(idx, raw)
  \/ \E idx \in 0..Len(Catalog) : CheckoutRemoveItem(idx)
  \/ \E method \in ShippingMethods : ShippingChange(method)
  \/ \E name \in Names, n \in Quantities : VueUpdateQuantity(name, n)
  \/ \E name \in Names : VueIncreaseQuantity(name)
  \/ \E name \in Names : VueDecreaseQuantity(name)
  \/ \E name \in Names : VueRemoveItem(name)
  \/ \E allValid \in BOOLEAN : CheckoutSubmit(allValid)
  \/ \E valid \in BOOLEAN : HandleSubmit(valid)
  \/ \E now \in Timestamps, build \in VueBuilds : HandleSubmitResume(now, build)

SpecCheckout == InitCheckout /\ [][NextCheckout]_vars

-----------------------------------------------------------------------------
(* A visit of one page with a form, product A in the stored cart *)

\* the page that holds each form
FormPage(kind) ==
  IF kind = "checkout" THEN "checkout"
  ELSE IF kind = "vueCheckout" THEN "vue"
  ELSE IF kind = "contact" THEN "contact"
  ELSE "vueContact"

\* the page after DOMContentLoaded
InitForms ==
  \E kind \in FormKinds :
    LET st == saveCartToStorage(CartOfA, NoEntry, TRUE)
        loaded == loadCartFromStorage(st)
    IN  /\ form = FreshForm(kind)
        /\ page = FormPage(kind)
        /\ storage = st
        /\ cart = loaded
        /\ shape = ArrayShape
        /\ rows = IF kind = "checkout" THEN Len(loaded) ELSE 0
        /\ cartItems = IF kind = "vueCheckout" THEN loadCartData(st).items ELSE <<>>
        /\ cartTotal = IF kind = "vueCheckout" THEN loadCartData(st).total ELSE 0
        /\ last = IF kind = "checkout"
                  THEN Report("load", "none", "", NoTotal,
                              checkoutSubtotal(loaded), checkoutTotal(loaded, "standard"))
                  ELSE Report("load", "none", "", NoTotal, NoTotal, NoTotal)
        /\ failures = 0
        /\ pending = <<>>
        /\ disabled = {}
        /\ timers = {}
        /\ shippingMethod = "standard"
        /\ isProcessing = FALSE
        /\ submitted = NoSubmission
        /\ peer = <<>>
        /\ grid = NoGrid
        /\ searchInput = NoQuery
        /\ fetches = {}
        /\ orderPlaced = FALSE
        /\ orderNumber = 0
        /\ orderHistory = <<>>
        /\ historyStorage = <<>>
        /\ arg = NoArg
        /\ result = NoArg

NextForms ==
  \/ \E i \in 1..MaxFields, ok \in BOOLEAN : FormInput(i, ok)
  \/ \E i \in 1..MaxFields : FormBlur(i)
  \/ ContactSubmit
  \/ VueContactSubmit
  \/ ResetForm
  \/ ResetAcknowledgement
  \/ \E allValid \in BOOLEAN : CheckoutSubmit(allValid)
  \/ \E valid \in BOOLEAN : HandleSubmit(valid)
  \/ \E now \in Timestamps, build \in VueBuilds : HandleSubmitResume(now, build)

SpecForms == InitForms /\ [][NextForms]_vars

-----------------------------------------------------------------------------
(* The expiry validators applied to one text on one date *)

InitExpiry ==
  /\ arg \in ExpiryInputs
  /\ result = NoArg
  /\ page = "checkout"
  /\ cart = <<>>
  /\ storage = NoEntry
  /\ shape = ArrayShape
  /\ failures = 0
  /\ pending = <<>>
  /\ disabled = {}
  /\ timers = {}
  /\ rows = 0
  /\ shippingMethod = "standard"
  /\ cartItems = <<>>
  /\ cartTotal = 0
  /\ last = Report("load", "none", "", NoTotal, NoTotal, NoTotal)
  /\ isProcessing = FALSE
  /\ submitted = NoSubmission
  /\ peer = <<>>
  /\ grid = NoGrid
  /\ searchInput = NoQuery
  /\ fetches = {}
  /\ orderPlaced = FALSE
  /\ orderNumber = 0
  /\ orderHistory = <<>>
  /\ historyStorage = <<>>
  /\ form = NoForm

NextExpiry == ValidateExpiryPlain \/ ValidateExpiryVue

SpecExpiry == InitExpiry /\ [][NextExpiry]_vars

-----------------------------------------------------------------------------
(* products.html: the grid #products, filled by the catalog fetches that   *)
(* initializePage starts, and the query q of the address                   *)

\* toLowerCase() of the names and categories of the catalog
lowerCaseOf(str) ==
  CASE str = "A" -> <<"a">>
    [] str = "B" -> <<"b">>
    [] str = "C" -> <<"c">>
    [] str = "Laptops" -> <<"l", "a", "p", "t", "o", "p", "s">>
    [] str = "Accessories" -> <<"a", "c", "c", "e", "s", "s", "o", "r", "i", "e", "s">>

\* searchTerm.toLowerCase()
toLowerCase(t) ==
  [i \in DOMAIN t |-> CASE t[i] = "A" -> "a"
                        [] t[i] = "B" -> "b"
                        [] t[i] = "C" -> "c"
                        [] t[i] = "L" -> "l"
                        [] t[i] = "P" -> "p"
                        [] OTHER -> t[i]]

\* text.includes(term)
includes(text, term) ==
  \E i \in 1..(Len(text) - Len(term) + 1) : SubSeq(text, i, i + Len(term) - 1) = term

\* searchProducts(products, searchTerm); the catalog entries have a name and
\* a category and no description
searchProducts(products, searchTerm) ==
  LET term == trim(toLowerCase(searchTerm))
  IN  IF term = <<>> THEN products
      ELSE SelectSeq(products,
                     LAMBDA product : \/ includes(lowerCaseOf(product.name), term)
                                      \/ includes(lowerCaseOf(product.category), term))

\* the cards of a list of products, in order
cardsOf(products) == [i \in DOMAIN products |-> products[i].name]

\* renderProducts('products'): what its fetch writes into #products
renderProductsGrid == [cards |-> cardsOf(Catalog), message |-> ""]

\* what the fetch of the query writes into #products
searchGrid(searchQuery) ==
  LET filtered == searchProducts(Catalog, searchQuery)
  IN  IF Len(filtered) > 0 THEN [cards |-> cardsOf(filtered), message |-> ""]
      ELSE [cards |-> <<>>, message |-> "No products found matching your search."]

\* values of params.get('q'): none, names, parts of categories, a term in
\* no product, and a blank
Queries ==
  {NoQuery, <<"b">>, <<"C">>, <<"L", "A", "P">>, <<"s", "o">>, <<"t">>, <<"z">>, <<" ">>}

\* the fetches initializePage starts on products.html loaded with q
pageFetches(q) ==
  {[by |-> "renderProducts", q |-> NoQuery],
   [by |-> "renderFeatured", q |-> NoQuery],
   [by |-> "featuredDeal", q |-> NoQuery]}
  \cup (IF q # NoQuery THEN {[by |-> "search", q |-> q]} ELSE {})

\* products.html loads with the query q: initializePage
ProductsPageLoad(q) ==
  /\ PageLoad("shop", storage, "load", "none")
  /\ grid' = NoGrid
  /\ searchInput' = q
  /\ fetches' = pageFetches(q)
  /\ UNCHANGED <<storage, failures>>

\* the response of one catalog fetch arrives: its .then runs
FetchThen(f) ==
  /\ f \in fetches
  /\ fetches' = fetches \ {f}
  /\ grid' = CASE f.by = "renderProducts" -> renderProductsGrid
               [] f.by = "search" -> searchGrid(f.q)
               [] OTHER -> grid
  /\ UNCHANGED <<page, cart, storage, failures, pending, disabled, timers, rows,
                 shippingMethod, cartItems, cartTotal, last, shape, orderVars,
                 formVars, submitted, peer, searchInput>>

InitSearch ==
  /\ page = "shop"
  /\ cart = <<>>
  /\ storage = NoEntry
  /\ shape = ArrayShape
  /\ failures = 0
  /\ pending = <<>>
  /\ disabled = {}
  /\ timers = {}
  /\ rows = 0
  /\ shippingMethod = "standard"
  /\ cartItems = <<>>
  /\ cartTotal = 0
  /\ last = Report("load", "none", "", NoTotal, NoTotal, NoTotal)
  /\ isProcessing = FALSE
  /\ submitted = NoSubmission
  /\ peer = <<>>
  /\ orderPlaced = FALSE
  /\ orderNumber = 0
  /\ orderHistory = <<>>
  /\ historyStorage = <<>>
  /\ form = NoForm
  /\ arg = NoArg
  /\ result = NoArg
  /\ \E q \in Queries :
       /\ grid = NoGrid
       /\ searchInput = q
       /\ fetches = pageFetches(q)

NextSearch ==
  \/ \E q \in Queries : ProductsPageLoad(q)
  \/ \E f \in fetches : FetchThen(f)

SpecSearch == InitSearch /\ [][NextSearch]_vars

-----------------------------------------------------------------------------
(* Two tabs on shop pages, sharing the 'cart' key *)

\* the products added in each tab
FirstTabNames == {"A"}
PeerNames == {"C"}

NextTabs ==
  \/ Navigate("shop")
  \/ ClearCart
  \/ \E name \in FirstTabNames : AddToCartClick(name)
  \/ \E i \in DOMAIN pending : AddToCartThen(i)
  \/ \E name \in FirstTabNames : ButtonTimer(name)
  \/ PeerPageLoad
  \/ \E name \in PeerNames : PeerAddToCart(name)
  \/ PeerClearCart

SpecTabs == Init /\ [][NextTabs]_vars

-----------------------------------------------------------------------------
(* A shop page on which several addToCart calls are in flight at a time *)

\* the fetch of a call for name settles: its .then or its .catch runs
SettleAdd(name) ==
  \E i \in DOMAIN pending :
    /\ pending[i].name = name
    /\ AddToCartThen(i) \/ AddToCartCatch(i)

NextAdds ==
  \/ \E name \in Names : AddToCartClickWithin(name, MaxInFlight)
  \/ \E i \in 1..MaxInFlight : AddToCartThen(i)
  \/ \E i \in 1..MaxInFlight : AddToCartCatch(i)
  \/ \E name \in Names : ButtonTimer(name)

SpecAdds == Init /\ [][NextAdds]_vars

\* every fetch settles and every timer fires
FairSpecAdds ==
  /\ SpecAdds
  /\ \A name \in Names : WF_vars(SettleAdd(name))
  /\ \A name \in Names : WF_vars(ButtonTimer(name))

-----------------------------------------------------------------------------
(* The field validators applied to one text *)

InitValidators ==
  /\ arg \in ValidatorInputs
  /\ result = NoArg
  /\ page = "checkout"
  /\ cart = <<>>
  /\ storage = NoEntry
  /\ shape = ArrayShape
  /\ failures = 0
  /\ pending = <<>>
  /\ disabled = {}
  /\ timers = {}
  /\ rows = 0
  /\ shippingMethod = "standard"
  /\ cartItems = <<>>
  /\ cartTotal = 0
  /\ last = Report("load", "none", "", NoTotal, NoTotal, NoTotal)
  /\ isProcessing = FALSE
  /\ submitted = NoSubmission
  /\ peer = <<>>
  /\ grid = NoGrid
  /\ searchInput = NoQuery
  /\ fetches = {}
  /\ orderPlaced = FALSE
  /\ orderNumber = 0
  /\ orderHistory = <<>>
  /\ historyStorage = <<>>
  /\ form = NoForm

NextValidators == ValidatePlain \/ ValidateVue \/ CardInput

SpecValidators == InitValidators /\ [][NextValidators]_vars

\* the timer of the simulated delay fires
FairSpecCheckout ==
  SpecCheckout /\ WF_vars(\E now \in Timestamps, build \in VueBuilds : HandleSubmitResume(now, build))

-----------------------------------------------------------------------------
(* Properties *)

\* the operations of script.js that change the cart
MutatingOps ==
  {"addToCartThen", "increaseQuantity", "decreaseQuantity", "removeFromCart",
   "updateCartQuantity", "clearCart", "qtyChange", "removeItem"}

\* C1: starting from an empty cart, after any sequence of cart operations the
\* cart holds at most one line per product name and every line's quantity is
\* an integer >= 1.
C1_OneLinePerNameQuantityPositive ==
  /\ \A i, j \in DOMAIN cart : cart[i].name = cart[j].name => i = j
  /\ \A i \in DOMAIN cart : cart[i].quantity \in Nat /\ cart[i].quantity >= 1

\* an add for a product already in a two-line cart raised its quantity
C1_Witness ==
  /\ last.op = "addToCartThen"
  /\ Len(cart) = 2
  /\ \E i \in DOMAIN cart : cart[i].quantity = 2

\* C2: provided the storage write succeeds, after every cart-mutating
\* operation the value stored under 'cart' is the serialization of the whole
\* in-memory cart, and loading it reproduces the in-memory cart.
C2_StoredIsWholeCart ==
  (last.op \in MutatingOps /\ last.write = "ok") =>
    /\ storage.present
    /\ storage.text = stringify(cart)
    /\ loadCartFromStorage(storage) = cart

\* a quantity typed into the checkout table was saved with a two-line cart
C2_Witness ==
  /\ last.op = "qtyChange"
  /\ last.write = "ok"
  /\ Len(cart) = 2
  /\ \E i \in DOMAIN cart : cart[i].quantity = 2

\* C3, as claimed: after every completed addToCart a reload yields the cart as
\* it was before the reload.
C3_ReloadAfterEveryAdd ==
  (last.op = "addToCartThen" /\ last.alert = "") => loadCartFromStorage(storage) = cart

\* C3, amended: after a completed addToCart whose storage write succeeded, a
\* reload yields the same lines in the same order, each with the same name,
\* price, quantity, originalPrice and isDiscounted.
C3_ReloadAfterSavedAdd ==
  (last.op = "addToCartThen" /\ last.write = "ok") =>
    LET loaded == loadCartFromStorage(storage)
    IN  /\ Len(loaded) = Len(cart)
        /\ \A i \in DOMAIN cart :
             /\ loaded[i].name = cart[i].name
             /\ loaded[i].price = cart[i].price
             /\ loaded[i].quantity = cart[i].quantity
             /\ loaded[i].originalPrice = cart[i].originalPrice
             /\ loaded[i].isDiscounted = cart[i].isDiscounted

\* a saved add left a discounted line and a second line in the cart
C3_Witness ==
  /\ last.op = "addToCartThen"
  /\ last.write = "ok"
  /\ Len(cart) = 2
  /\ \E i \in DOMAIN cart : cart[i].isDiscounted /\ cart[i].price # cart[i].originalPrice

\* C4: addToCart for a product found in the catalog either raises the
\* quantity of the existing line by exactly 1, leaving its other fields alone,
\* or appends a line with quantity 1, originalPrice the catalog price, and
\* price the price the control supplied, whatever that value is, or the
\* catalog price when none was supplied; no other line changes and the cart is
\* saved afterwards.
C4_AddContract ==
  [][\A i \in DOMAIN pending :
       (AddToCartThen(i) /\ pending[i].name \in CatalogNames) =>
         LET call == pending[i]
             product == Catalog[CHOOSE j \in DOMAIN Catalog : Catalog[j].name = call.name]
             existing == {j \in DOMAIN cart : cart[j].name = call.name}
         IN  /\ existing # {} =>
                  /\ Len(cart') = Len(cart)
                  /\ \A j \in DOMAIN cart :
                       cart'[j] = IF j \in existing
                                  THEN [cart[j] EXCEPT !.quantity = cart[j].quantity + 1]
                                  ELSE cart[j]
             /\ existing = {} =>
                  /\ Len(cart') = Len(cart) + 1
                  /\ SubSeq(cart', 1, Len(cart)) = cart
                  /\ cart'[Len(cart')].name = call.name
                  /\ cart'[Len(cart')].quantity = 1
                  /\ cart'[Len(cart')].originalPrice = product.price
                  /\ cart'[Len(cart')].price =
                       IF call.discountedPrice # NullPrice THEN call.discountedPrice
                       ELSE product.price
             /\ last'.write # "none"
    ]_vars

\* C5: addToCart for a name that is not in the catalog, or whose catalog fetch
\* fails, alerts the user and leaves the in-memory cart and the stored cart as
\* they were before the call.
C5_NotFoundOrFetchFailure ==
  [][\A i \in DOMAIN pending :
       (\/ AddToCartCatch(i)
        \/ AddToCartThen(i) /\ pending[i].name \notin CatalogNames) =>
         /\ last'.alert # ""
         /\ cart' = cart
         /\ storage' = storage
    ]_vars

\* an add of an unknown name was answered with the alert while the cart and
\* its stored copy held a line
C5_Witness ==
  /\ last.op = "addToCartThen"
  /\ last.alert = "Product not found!"
  /\ Len(cart) >= 1
  /\ storage.present /\ Len(storage.text) >= 1

\* the quantity of the line of name in c, 0 when there is no such line
QuantityOf(c, name) ==
  IF \E i \in DOMAIN c : c[i].name = name
  THEN c[CHOOSE i \in DOMAIN c : c[i].name = name].quantity
  ELSE 0

\* C6: a quantity change that would bring a line below 1 removes the line as
\* remove does: updateQuantity(name, n) with n <= 0 and decrement on a line of
\* quantity 1 leave the cart and the stored value that remove(name) leaves;
\* updateQuantity with n > 0 sets the line's quantity to n and decrement on
\* quantity q > 1 gives q - 1; in script.js and in the Vue CartSummary.
C6_BelowOneIsRemove ==
  [][\A name \in Names :
       /\ \A n \in Quantities :
            /\ (n <= 0 /\ UpdateCartQuantity(name, n)) =>
                 /\ cart' = removeFromCart(cart, name)
                 /\ storage' = saveCartToStorage(removeFromCart(cart, name), storage,
                                                 last'.write = "ok")
            /\ (n > 0 /\ QuantityOf(cart, name) # 0 /\ UpdateCartQuantity(name, n)) =>
                 QuantityOf(cart', name) = n
            /\ (n <= 0 /\ VueUpdateQuantity(name, n)) =>
                 /\ cartItems' = handleCartUpdate(cartItems, "remove", name, 0)
                 /\ storage' = IF last'.write = "ok"
                               THEN setItem(stringify(handleCartUpdate(cartItems, "remove", name, 0)))
                               ELSE storage
            /\ (n > 0 /\ QuantityOf(cartItems, name) # 0 /\ VueUpdateQuantity(name, n)) =>
                 QuantityOf(cartItems', name) = n
       /\ (QuantityOf(cart, name) = 1 /\ DecreaseQuantity(name)) =>
            /\ cart' = removeFromCart(cart, name)
            /\ storage' = saveCartToStorage(removeFromCart(cart, name), storage,
                                            last'.write = "ok")
       /\ (QuantityOf(cart, name) > 1 /\ DecreaseQuantity(name)) =>
            QuantityOf(cart', name) = QuantityOf(cart, name) - 1
       /\ (QuantityOf(cartItems, name) = 1 /\ VueDecreaseQuantity(name)) =>
            /\ cartItems' = handleCartUpdate(cartItems, "remove", name, 0)
            /\ storage' = IF last'.write = "ok"
                          THEN setItem(stringify(handleCartUpdate(cartItems, "remove", name, 0)))
                          ELSE storage
       /\ (QuantityOf(cartItems, name) > 1 /\ VueDecreaseQuantity(name)) =>
            QuantityOf(cartItems', name) = QuantityOf(cartItems, name) - 1
    ]_vars

\* a decrement took the last line out of the cart and the empty cart was saved
C6_Witness ==
  /\ last.op = "decreaseQuantity"
  /\ last.write = "ok"
  /\ cart = <<>>
  /\ storage.text = <<>>

\* the lines of c whose name is not name, in their order
RECURSIVE OtherLines(_, _)
OtherLines(c, name) ==
  IF c = <<>> THEN <<>>
  ELSE IF Head(c).name = name THEN OtherLines(Tail(c), name)
       ELSE <<Head(c)>> \o OtherLines(Tail(c), name)

\* C7: remove(name) deletes the line whose name matches and leaves every other
\* line unchanged and in the same relative order; with no line of that name
\* the cart contents are unchanged; in script.js and in the Vue handler.
C7_RemoveOnlyThatLine ==
  [][\A name \in Names :
       /\ RemoveFromCart(name) =>
            /\ cart' = OtherLines(cart, name)
            /\ QuantityOf(cart, name) = 0 => cart' = cart
       /\ VueRemoveItem(name) =>
            /\ cartItems' = OtherLines(cartItems, name)
            /\ QuantityOf(cartItems, name) = 0 => cartItems' = cartItems
    ]_vars

\* a removal left one line of a cart whose stored copy still has two
C7_Witness ==
  /\ last.op = "removeFromCart"
  /\ last.write = "failed"
  /\ Len(cart) = 1
  /\ Len(storage.text) = 2

\* C8, as claimed: after clearCart the cart has no lines and storage holds no
\* entry under 'cart'.
C8_ClearDeletesKey ==
  last.op = "clearCart" => cart = <<>> /\ ~storage.present

\* C8, amended: after clearCart the cart has no lines and, when the write
\* succeeded, the 'cart' entry is still present and holds the serialization of
\* the empty cart, which loads as the empty cart.
C8_ClearWritesEmptyCart ==
  last.op = "clearCart" =>
    /\ cart = <<>>
    /\ last.write = "ok" =>
         /\ storage.present
         /\ storage.text = <<>>
         /\ loadCartFromStorage(storage) = <<>>

\* clearCart ran and its write went through
C8_Witness ==
  /\ last.op = "clearCart"
  /\ last.write = "ok"
  /\ storage.present

\* sum of price x quantity over the lines of c
RECURSIVE LinesSum(_)
LinesSum(c) ==
  IF c = <<>> THEN 0 ELSE Head(c).price * Head(c).quantity + LinesSum(Tail(c))

\* the totals script.js shows agree with the cart in memory
ScriptTotalsAreSums ==
  /\ last.total # NoTotal => last.total = LinesSum(cart)
  /\ last.subtotal # NoTotal =>
       /\ last.subtotal = LinesSum(cart)
       /\ last.grand = LinesSum(cart) + (IF shippingMethod = "express" THEN ExpressCost ELSE 0)

\* C9: in every reachable state the cart total shown or maintained equals the
\* sum of price x quantity over the current cart lines: the totals of showCart
\* and updateCheckoutTotal, and the Vue cartTotal after load and every update.
C9_TotalIsSumOfLines ==
  /\ ScriptTotalsAreSums
  /\ page = "vue" => cartTotal = LinesSum(cartItems)

\* C10, as claimed: computing the cart total changes neither the in-memory
\* cart nor the stored cart.
C10_TotalIsPure ==
  [][(ShowCart \/ \E method \in ShippingMethods : ShippingChange(method)) =>
       cart' = cart /\ storage' = storage
    ]_vars

\* C10, amended: computing the cart total never changes the stored cart;
\* showCart leaves the in-memory cart alone, and updateCheckoutTotal replaces
\* the in-memory cart by the cart loaded from storage before it sums.
C10_TotalLeavesStorage ==
  [][/\ ShowCart => cart' = cart /\ storage' = storage
     /\ \A method \in ShippingMethods :
          ShippingChange(method) =>
            /\ storage' = storage
            /\ cart' = loadCartFromStorage(storage)
            /\ last'.subtotal = LinesSum(loadCartFromStorage(storage))
    ]_vars

\* the checkout total was recomputed for express shipping over a stored cart,
\* after a write had failed
C10_Witness ==
  /\ last.op = "shippingChange"
  /\ shippingMethod = "express"
  /\ failures >= 1
  /\ Len(cart) >= 1

-----------------------------------------------------------------------------
(* Properties of the site opened on a stored value that is not a cart *)

\* the exceptions no handler of the site catches
Uncaught == {"TypeError", "SyntaxError", "QuotaExceededError"}

\* C11: when the value stored under 'cart' is not usable (it does not parse,
\* or it parses to null, an object or a number), the load leaves an empty
\* cart, and every later cart operation (show, add, total, checkout submit)
\* completes without failing, in script.js and in the Vue application.
C11_UnusableValueLoadsEmptyCart ==
  /\ shape.cart = "array" /\ shape.cartItems = "array"
  /\ last.op \in {"load", "showCart", "shippingChange", "submit"}
       => last.alert \notin Uncaught

\* the exceptions of a storage read, parse or write
StorageFailures == {"SyntaxError", "QuotaExceededError"}

\* C12: no failure of a storage read, parse or write leaves the function
\* that made the access: script.js loadCartFromStorage and saveCartToStorage,
\* and the Vue loadCartData, handleCartUpdate, handleOrderPlaced and the
\* history load of onMounted, all contain it, so no UI handler sees it.
C12_StorageFailureContained == last.alert \notin StorageFailures

-----------------------------------------------------------------------------
(* Properties of the checkout pages *)

\* C13: in every checkout implementation, a submit made while the cart is
\* empty never places an order and shows the empty-cart message, which is
\* distinct from the validation-error message, whether the fields are all
\* valid or not.
C13_EmptyCartBlocksSubmit ==
  [][\A valid \in BOOLEAN :
       /\ (CheckoutSubmit(valid) /\ cart = <<>>)
            => /\ last'.alert = EmptyCartMessage
               /\ EmptyCartMessage # InvalidFieldsMessage
       /\ (HandleSubmit(valid) /\ cartItems = <<>>)
            => /\ ~isProcessing'
               /\ last'.alert = EmptyCartMessage]_vars

-----------------------------------------------------------------------------
(* Properties of the forms *)

\* a submit that ran the validation of the form and did not pass it
FailedSubmit ==
  \/ ContactSubmit /\ ~allPass(form)
  \/ VueContactSubmit /\ ~allPass(form)
  \/ CheckoutSubmit(FALSE) /\ loadCartFromStorage(storage) # <<>>
  \/ HandleSubmit(FALSE)

\* C14: whole-form validation never short-circuits: on every submit of the
\* contact form or the checkout form every field's validator is run and the
\* field's error state updated, so after a submit with several invalid
\* fields each of them shows its own error, not only the first.
C14_EveryFieldValidated ==
  [][FailedSubmit => \A i \in DOMAIN form.valid : form'.error[i] = ~form.valid[i]]_vars

-----------------------------------------------------------------------------
(* Properties of the checkout submit *)

\* a checkout submit whose validation fails on at least one field
InvalidSubmit == CheckoutSubmit(FALSE) \/ HandleSubmit(FALSE)

\* no order placed: no success state, no order number, nothing appended to
\* the order history, and the form can be submitted again
NoOrderPlaced ==
  /\ UNCHANGED <<orderPlaced, orderNumber, orderHistory, historyStorage>>
  /\ ~orderPlaced' /\ ~isProcessing'
  /\ last'.alert # SuccessMessage
  /\ page' = page /\ shape' = shape

\* C15 as stated: if at least one field fails validation at checkout submit,
\* no order is placed and the in-memory cart and the stored cart are exactly
\* as before the submit; the flow returns to Idle and can be submitted again.
C15_InvalidSubmitChangesNothing ==
  [][InvalidSubmit => /\ NoOrderPlaced
                      /\ storage' = storage
                      /\ cart' = cart /\ cartItems' = cartItems]_vars

\* C15, amended: if at least one field fails validation at checkout submit,
\* no order is placed, the stored cart is exactly as before, the Vue cart in
\* memory is exactly as before, and the script.js cart in memory is the
\* stored cart (the plain-DOM handler loads it before anything else); the
\* flow returns to Idle and can be submitted again.
C15_InvalidSubmitKeepsStoredCart ==
  [][InvalidSubmit => /\ NoOrderPlaced
                      /\ storage' = storage
                      /\ cartItems' = cartItems
                      /\ (page = "checkout" => cart' = loadCartFromStorage(storage))
                      /\ (page = "vue" => cart' = cart)]_vars

\* an invalid submit of the plain-DOM form with two lines in the cart
C15_Witness ==
  /\ last.op = "submit"
  /\ last.alert = InvalidFieldsMessage
  /\ Len(cart) = 2
  /\ storage = saveCartToStorage(cart, NoEntry, TRUE)

\* the Vue flow is in OrderPlaced: the success block with the order number
OrderPlaced == orderPlaced /\ orderNumber # 0 /\ ~isProcessing

\* C16: every checkout submit that passes validation with a non-empty cart
\* eventually reaches OrderPlaced: in the Vue flow isProcessing becomes true,
\* the simulated delay always ends, orderPlaced becomes true with an order
\* number and isProcessing is false afterwards; the flow never stays in
\* Processing and never ends in a failure state (leaving the page ends it).
C16_ValidSubmitReachesOrderPlaced ==
  (isProcessing /\ cartItems # <<>>) ~> (OrderPlaced \/ last.op = "load")

\* C17: in every state reached by a successful checkout (plain-DOM and Vue)
\* the cart is empty in memory and loading the cart from storage yields an
\* empty cart, and it stays so until the next add.
C17_CartEmptyAfterCheckout ==
  (orderPlaced \/ last.alert = SuccessMessage)
    => /\ cart = <<>>
       /\ cartItems = <<>>
       /\ loadCartFromStorage(storage) = <<>>

-----------------------------------------------------------------------------
(* Properties of the listings *)

\* C18: the automatic 20% discount goes to the first product in catalog
\* order and to no other: in every rendered listing a product without its
\* own discountPercent gets a discounted price and a discounted add-to-cart
\* control (the data-price a click hands to addToCart) only if it is the
\* first catalog entry.
C18_AutoDiscountOnlyFirstEntry ==
  \A i \in DOMAIN pending :
    LET f == findProduct(pending[i].name)
    IN  (f.found /\ f.product.discountPercent = 0 /\ pending[i].discountedPrice # NullPrice)
          => f.product = Catalog[1]

-----------------------------------------------------------------------------
(* Properties of the contact forms *)

\* a submit of a contact form
AnyContactSubmit == ContactSubmit \/ VueContactSubmit

\* C19: after a contact-form submit with all fields valid no field error is
\* displayed and a success acknowledgment is shown; the acknowledgment stays
\* shown through every later event until an explicit dismissal or reset, and
\* any re-submission of the form clears the previous acknowledgment; for the
\* plain-DOM form and for the Vue ContactForm with its parent acknowledgment.
C19_AcknowledgmentLifecycle ==
  [][/\ (AnyContactSubmit /\ allPass(form))
          => /\ form'.ack
             /\ form.kind = "vueContact" => form'.parentAck
             /\ \A i \in DOMAIN form'.error : ~form'.error[i]
     /\ (form.kind \in {"contact", "vueContact"}
           /\ ~(AnyContactSubmit \/ ResetForm \/ ResetAcknowledgement))
          => /\ form.ack => form'.ack
             /\ form.parentAck => form'.parentAck
     /\ (AnyContactSubmit /\ ~allPass(form))
          => ~form'.ack /\ ~form'.parentAck]_vars

-----------------------------------------------------------------------------
(* Properties of the expiry validators *)

\* MM is between 01 and 12 and (20YY, MM) is not strictly before the
\* current (year, month)
NotExpired(text, now) ==
  LET mm == parseInt2(SubSeq(text, 1, 2))
      yy == 2000 + parseInt2(SubSeq(text, 4, 5))
  IN  /\ mm >= 1 /\ mm <= 12
      /\ ~(yy < now.year \/ (yy = now.year /\ mm < now.month + 1))

\* C20: for every two-digit month MM and year YY and every current date the
\* checkout expiry validator accepts MM/YY exactly when MM is between 01 and
\* 12 and (20YY, MM) is not strictly before the current (year, month); for
\* the plain-DOM validator and for the Vue validateExpiryDate.
C20_AcceptsExactlyUnexpired ==
  result # NoArg => (result.error = "" <=> NotExpired(arg.text, arg.now))

\* the plain-DOM validator accepts exactly the texts that are not expired
PlainExpiryAcceptsExactlyUnexpired ==
  (result # NoArg /\ result.by = "validators.expiry")
    => (result.error = "" <=> NotExpired(arg.text, arg.now))

-----------------------------------------------------------------------------
\* the card text, spaces removed, is exactly 16 digits
SixteenDigits(s) ==
  /\ Len(replaceSpaces(s)) = 16
  /\ \A i \in DOMAIN replaceSpaces(s) : replaceSpaces(s)[i] \in Digits

\* C21: the plain-DOM validator, the Vue validator and the card input handler
\* each accept a card text exactly when the text, spaces removed, is 16 digits
C21_AcceptsExactlySixteenDigits ==
  (result # NoArg /\ arg.field = "card")
     => (result.error = "" <=> SixteenDigits(arg.text))

-----------------------------------------------------------------------------
\* the least number of digits of a phone field
MinDigits(field) == IF field = "phone" THEN 7 ELSE 8

\* the text has only digits, spaces, '+', '-', '(' and ')', and between the
\* field's least number and 15 digits
PhoneOk(field, s) ==
  /\ \A i \in DOMAIN s : s[i] \in PhoneChars
  /\ Len(replaceNonDigits(s)) >= MinDigits(field)
  /\ Len(replaceNonDigits(s)) <= 15

\* C22: the phone and mobile validators of both implementations accept a
\* non-empty text exactly when it has only digits, spaces, '+', '-', '(' and
\* ')' and its digits number 7 to 15 (contact phone) or 8 to 15 (mobile)
C22_PhoneAcceptsByDigitCount ==
  (result # NoArg /\ arg.field \in {"phone", "mobile"} /\ trim(arg.text) # <<>>)
     => (result.error = "" <=> PhoneOk(arg.field, arg.text))

-----------------------------------------------------------------------------
\* no fetch that writes into #products is in flight
GridSettled == \A f \in fetches : f.by \notin {"renderProducts", "search"}

\* C23: products.html loaded with a query q ends with q in the search input
\* and with exactly the products matching q in the grid, in whatever order
\* the fetches of the page load complete; without q the grid is the catalog
C23_GridShowsMatchesOfQuery ==
  GridSettled =>
     grid = IF searchInput = NoQuery THEN renderProductsGrid
            ELSE searchGrid(searchInput)

-----------------------------------------------------------------------------
\* a mutation of the first tab whose setItem succeeded
FirstTabWrote ==
  /\ ClearCart \/ \E i \in DOMAIN pending : AddToCartThen(i)
  /\ last'.write = "ok"

\* a mutation of the second tab whose setItem succeeded
PeerWrote ==
  /\ PeerClearCart \/ \E name \in PeerNames : PeerAddToCart(name)
  /\ failures' = failures

\* C24: a mutation in either tab overwrites 'cart' with the whole cart of
\* that tab, whatever the other tab stored before: after the write the entry
\* loads as the writer's cart, without the lines only the other tab has
C24_LastWriterWins ==
  [][/\ FirstTabWrote => (storage'.present /\ loadCartFromStorage(storage') = cart')
     /\ PeerWrote => (storage'.present /\ loadCartFromStorage(storage') = peer')]_vars

\* the second tab wrote last and a line the first tab added and stored is
\* no longer in storage
C24_Witness ==
  /\ failures = 0
  /\ storage.present
  /\ peer # <<>>
  /\ loadCartFromStorage(storage) = peer
  /\ \E i \in DOMAIN cart : findItem(peer, cart[i].name) = 0

-----------------------------------------------------------------------------
\* the adds for name that are in flight or in their feedback window
activeAdds(name) ==
  Cardinality({i \in DOMAIN pending : pending[i].name = name})
    + (IF name \in timers THEN 1 ELSE 0)

\* a product has at most one add in flight or in its feedback window, and
\* its button is disabled for as long
OneAddAtATime ==
  \A name \in CatalogNames :
    /\ activeAdds(name) <= 1
    /\ activeAdds(name) = 1 => name \in disabled

-----------------------------------------------------------------------------
\* the .then of call i found its product and changed the cart
AddCompletes(i) ==
  /\ i \in DOMAIN pending
  /\ findProduct(pending[i].name).found
  /\ AddToCartThen(i)

\* the quantity of the line of name in c, 0 when there is none
quantityOf(c, name) == IF findItem(c, name) = 0 THEN 0 ELSE c[findItem(c, name)].quantity

-----------------------------------------------------------------------------
\* the order most recently pushed to the history
lastOrder(history) == history[Len(history)]

\* C27: the order the Vue checkout places holds the items and the subtotal
\* the cart had when handleSubmit passed validation, also when the cart was
\* changed during the processing delay
C27_OrderIsCartAtSubmit ==
  [][\A now \in Timestamps, build \in VueBuilds :
       HandleSubmitResume(now, build) =>
         /\ lastOrder(orderHistory').items = submitted.items
         /\ lastOrder(orderHistory').subtotal = submitted.subtotal]_vars

-----------------------------------------------------------------------------
\* C28: while a processing run of the Vue checkout is active no submit
\* starts a second one, and the end of the run places at most one order,
\* sets one order number and leaves no run active
C28_OneProcessingRun ==
  [][/\ isProcessing => ~HandleSubmit(TRUE)
     /\ \A now \in Timestamps, build \in VueBuilds :
          HandleSubmitResume(now, build) =>
            /\ isProcessing /\ ~isProcessing'
            /\ Len(orderHistory') = Len(orderHistory) + 1
            /\ orderNumber' = lastOrder(orderHistory').orderNumber]_vars

\* a run is waiting for its timer and the cart has been changed meanwhile
C28_Witness ==
  /\ isProcessing
  /\ submitted # NoSubmission
  /\ cartItems # submitted.items

-----------------------------------------------------------------------------
\* the step ends a processing run with orderPlaced set
SuccessfulCheckout ==
  /\ \E now \in Timestamps, build \in VueBuilds : HandleSubmitResume(now, build)
  /\ orderPlaced'

\* C29: a successful Vue checkout appends one order to the end of the
\* history, keeps the earlier entries, and writes the whole list to
\* 'orderHistory'; no other step changes the stored history or the history
\* of the mounted application, and a mount loads the stored entries
C29_HistoryAppendOnly ==
  [][IF SuccessfulCheckout
     THEN /\ Len(orderHistory') = Len(orderHistory) + 1
          /\ SubSeq(orderHistory', 1, Len(orderHistory)) = orderHistory
          /\ historyStorage' = orderHistory'
     ELSE /\ historyStorage' = historyStorage
          /\ (page = "vue" /\ last'.op \notin {"load", "goToCheckout"})
                => orderHistory' = orderHistory
          /\ (page' = "vue" /\ last'.op \in {"load", "goToCheckout"})
                => orderHistory' = historyStorage]_vars

-----------------------------------------------------------------------------
\* the fields both checkout forms validate, expiry apart
SharedFields == {"name", "email", "mobile", "card", "cvv", "cardname"}

\* what the other implementation reports for the text just validated
otherError ==
  IF result.by = "plain" THEN vueValidator(arg.field, arg.text)
  ELSE plainValidator(arg.field, arg.text)

\* C30: for every shared field and every text, the plain-DOM validator of
\* script.js reports an error exactly when the Vue validator of
\* checkout-app.js does
C30_ValidatorsAgree ==
  (result # NoArg /\ result.by \in {"plain", "vue"} /\ arg.field \in SharedFields)
     => (result.error = "" <=> otherError = "")
====
